---- MODULE Spec2Model ----
(***************************************************************************)
(* rss-to-kobo: the OAuth credential lifecycle (scripts/auth).             *)
(*                                                                         *)
(* State: the token directory (a map from path to file), the wall clock,   *)
(* whether the DROPBOX_APP_KEY / DROPBOX_APP_SECRET environment is set,    *)
(* the position of a save_tokens call that is followed file operation by   *)
(* file operation, and a log of the last completed call (what it was       *)
(* given, what it returned or raised, what it did to the store).           *)
(***************************************************************************)
EXTENDS Integers, Sequences, FiniteSets, TLC

VARIABLES fs, clock, env, sv, last, flow, job

vars == <<fs, clock, env, sv, last, flow, job>>

(***************************************************************************)
(* Bounds of the model.                                                    *)
(***************************************************************************)
\* The clock runs from 0 to MaxClock ticks.
MaxClock == 2
\* Ticks per second: datetime.utcnow().timestamp() is a float and int()
\* truncates it, so the clock is finer than the second.
TicksPerSecond == 2
\* A blob reaches the disk in this many chunks; fewer is a partial write.
BlobChunks == 2
\* The requests that reach the callback port during one login.
MaxRequests == 2

(***************************************************************************)
(* Python values.                                                          *)
(***************************************************************************)
\* None as the value of a dictionary key.
NoneVal == "<None>"
\* Optional[...] as a return value: None is <<>>, a value v is <<v>>.
None == <<>>
Some(v) == <<v>>
\* int(datetime.timestamp()): whole seconds of a clock reading.
IntTimestamp(t) == t \div TicksPerSecond
\* bool(x) of an int-or-None field; None is modelled as 0, as falsy as 0.
Truthy(n) == n # 0

(***************************************************************************)
(* scripts/auth/config.py                                                  *)
(***************************************************************************)
DEFAULT_TOKEN_EXPIRY_BUFFER == 300

\* The identity whose credential is managed.
Username == "alice"

\* get_token_path: tokens_dir / username (the directory, one for all
\* identities, is left out of the path).
get_token_path(username) == username

\* A save that writes the destination in place.
TempPath_InPlace(token_path) == token_path

\* save_tokens' temporary sibling, f"{self.token_path}.tmp".
TempPath(token_path) == token_path \o ".tmp"

\* The identities of the token directory: the managed one, one whose name
\* is the managed one's followed by ".tmp", and an unrelated one.
Identities == {Username, Username \o ".tmp", "bob"}

Paths ==
    {get_token_path(u) : u \in Identities}
    \cup {TempPath(get_token_path(u)) : u \in Identities}

(***************************************************************************)
(* scripts/auth/secure_storage.py: the codec.                              *)
(***************************************************************************)
DEV_SALT == "rss2kobo_salt_123"
DefaultPassword == "dev-key-1234567890"

\* The passwords a storage is created with: the default one of line 68 and
\* one the caller chose.
Passwords == {DefaultPassword, "passphrase-2"}

\* A derivation that draws a salt of its own when none is given: the key
\* differs from one derivation to a later one.
generate_key_from_password_FreshSalt(password, salt) ==
    LET s == IF salt = NoneVal THEN <<"urandom", clock>> ELSE salt
    IN  <<<<password, s>>, s>>

\* PBKDF2-HMAC-SHA256 is deterministic and, for the model, injective: the
\* derived key is the pair it was derived from.
generate_key_from_password(password, salt) ==
    LET s == IF salt = NoneVal THEN DEV_SALT ELSE salt
    IN  <<<<password, s>>, s>>

\* SecureTokenStorage._get_fernet: the key of the storage's password under
\* the default salt. The key an instance caches is the one a derivation
\* gives, so every call derives it.
get_fernet(password) == generate_key_from_password(password, NoneVal)[1]

\* The keys a token dictionary may hold, in the order json.dumps emits them.
KeyOrder == <<"access_token", "refresh_token", "token_type", "account_id",
              "uid", "created_at", "expires_at", "refreshed_at", "_saved_at">>

\* json.dumps: the dictionary as the sequence of its (key, value) members.
json_dumps(tokens) ==
    LET keys == SelectSeq(KeyOrder, LAMBDA k : k \in DOMAIN tokens)
    IN  [i \in 1..Len(keys) |-> <<keys[i], tokens[keys[i]]>>]

\* What json.loads accepts: a sequence of (key, value) members.
IsJson(data) == \A i \in DOMAIN data : Len(data[i]) = 2

\* A plaintext json.loads rejects.
NotJson == <<<<"{">>>>

\* json.loads: the dictionary of a sequence of members.
json_loads(data) ==
    [k \in {data[i][1] : i \in DOMAIN data} |->
        data[CHOOSE i \in DOMAIN data : data[i][1] = k][2]]

\* The HMAC of a Fernet token: it binds the key and what was encrypted.
Mac(key, data) == <<key, data>>

\* Fernet.encrypt: the ciphertext of the data under the key, and its HMAC.
Encrypt(key, data) == [key |-> key, data |-> data, mac |-> Mac(key, data)]

\* A decryption that does not verify the HMAC.
CanDecrypt_Unauthenticated(key, file) ==
    file.written = BlobChunks /\ file.blob.key = key

\* Fernet.decrypt succeeds only on a whole blob whose HMAC verifies under
\* the key.
CanDecrypt(key, file) ==
    /\ file.written = BlobChunks
    /\ file.blob.key = key
    /\ file.blob.mac = Mac(key, file.blob.data)

\* One bit of a blob flipped, in the ciphertext or in the HMAC.
FlipBit(blob, where) ==
    LET flipped == [blob.data EXCEPT ![1][2] = "flipped"]
    IN  IF where = "ciphertext" THEN [blob EXCEPT !.data = flipped]
        ELSE [blob EXCEPT !.mac = Mac(blob.key, flipped)]

(***************************************************************************)
(* The file system under the token directory.                              *)
(***************************************************************************)
NoFile == [exists |-> FALSE]
EmptyBlob == [key |-> <<>>, data |-> <<>>, mac |-> <<>>]

\* A file holds the first `written` chunks of `blob`.
File(blob, written, mode) ==
    [exists |-> TRUE, blob |-> blob, written |-> written, mode |-> mode]

\* os.path.exists / Path.exists
Exists(f, path) == f[path].exists

\* open(path, 'wb'): creates the file, or truncates it keeping its mode.
FsOpenW(f, path) ==
    [f EXCEPT ![path] = File(EmptyBlob, 0,
                             IF f[path].exists THEN f[path].mode ELSE "umask")]

\* f.write(blob), one chunk further.
FsWriteChunk(f, path, blob) ==
    [f EXCEPT ![path] = File(blob, f[path].written + 1, f[path].mode)]

\* os.unlink(path)
FsUnlink(f, path) == [f EXCEPT ![path] = NoFile]

\* os.rename(src, dst): dst becomes the file src was, src is gone.
FsRename(f, src, dst) == [f EXCEPT ![dst] = f[src], ![src] = NoFile]

\* os.chmod(path, mode)
FsChmod(f, path, mode) == [f EXCEPT ![path].mode = mode]

RECURSIVE FsWriteAll(_, _, _)
\* f.write(blob) to its end.
FsWriteAll(f, path, blob) ==
    IF f[path].written >= BlobChunks THEN f
    ELSE FsWriteAll(FsWriteChunk(f, path, blob), path, blob)

(***************************************************************************)
(* SecureTokenStorage                                                      *)
(***************************************************************************)
\* load_tokens: None for a missing, empty, undecryptable file and for one
\* that does not decrypt to JSON.
load_tokens(f, username, password) ==
    LET path == get_token_path(username)
    IN  IF ~Exists(f, path) THEN None
        ELSE IF f[path].written = 0 THEN None
        ELSE IF ~CanDecrypt(get_fernet(password), f[path]) THEN None
        ELSE IF ~IsJson(f[path].blob.data) THEN None
        ELSE Some(json_loads(f[path].blob.data))

\* tokens['_saved_at'] = datetime.utcnow().isoformat(): the dictionary the
\* caller passed is itself stamped.
Stamp(tokens, t) ==
    [k \in DOMAIN tokens \cup {"_saved_at"} |->
        IF k = "_saved_at" THEN t ELSE tokens[k]]

\* The encrypted blob save_tokens writes.
SaveBlob(tokens, t, password) ==
    Encrypt(get_fernet(password), json_dumps(Stamp(tokens, t)))

\* The except branch of save_tokens: the temporary file is removed when it
\* exists.
SaveCleanup(f, username) ==
    LET temp == TempPath(get_token_path(username))
    IN  IF Exists(f, temp) THEN FsUnlink(f, temp) ELSE f

\* Where a save_tokens call can fail.
SaveFaults == {"none", "mkdir", "open", "write", "unlink", "rename"}

\* The file system once the destination was removed if it existed.
SaveUnlinked(f, username) ==
    LET path == get_token_path(username)
    IN  IF Exists(f, path) THEN FsUnlink(f, path) ELSE f

\* save_tokens as one call: the result, the file system it leaves and the
\* caller's dictionary, for a call that fails at `fault`.
save_tokens(f, username, password, tokens, t, fault) ==
    LET path == get_token_path(username)
        temp == TempPath(path)
        blob == SaveBlob(tokens, t, password)
        opened == FsOpenW(f, temp)
        written == FsWriteAll(opened, temp, blob)
        unlinked == SaveUnlinked(written, username)
        renamed == FsRename(unlinked, temp, path)
        failed(g, d) == [ok |-> FALSE, fs |-> g, tokens |-> d]
        stamped == Stamp(tokens, t)
    IN  CASE fault = "mkdir" -> failed(f, tokens)
          [] fault = "open" -> failed(SaveCleanup(f, username), stamped)
          [] fault = "write" ->
                failed(SaveCleanup(FsWriteChunk(opened, temp, blob), username),
                       stamped)
          [] fault = "unlink" /\ Exists(written, path) ->
                failed(SaveCleanup(written, username), stamped)
          [] fault = "rename" -> failed(SaveCleanup(unlinked, username), stamped)
          [] OTHER ->
                [ok |-> TRUE, fs |-> FsChmod(renamed, path, "0600"),
                 tokens |-> stamped]

\* Where a clear_tokens call can fail: the first unlink, refused by the
\* operating system.
ClearFaults == {"none", "unlink"}

\* clear_tokens without the test of line 168.
clear_tokens_Unchecked(f, username, fault) ==
    LET path == get_token_path(username)
        once == FsUnlink(f, path)
    IN  IF fault = "unlink" \/ ~Exists(f, path)
        THEN [ok |-> FALSE, fs |-> f, unlinks |-> 1]
        ELSE [ok |-> FALSE, fs |-> once, unlinks |-> 2]

\* clear_tokens: when the file exists it is unlinked twice, by os.unlink and
\* then by Path.unlink; the unlink of a file that is not there raises
\* FileNotFoundError, an OSError, and the except branch returns False.
clear_tokens(f, username, fault) ==
    LET path == get_token_path(username)
        once == FsUnlink(f, path)
    IN  IF ~Exists(f, path) THEN [ok |-> TRUE, fs |-> f, unlinks |-> 0]
        ELSE IF fault = "unlink" THEN [ok |-> FALSE, fs |-> f, unlinks |-> 1]
        ELSE IF Exists(once, path)
        THEN [ok |-> TRUE, fs |-> FsUnlink(once, path), unlinks |-> 2]
        ELSE [ok |-> FALSE, fs |-> once, unlinks |-> 2]

(***************************************************************************)
(* The log of the last completed call.                                     *)
(***************************************************************************)
NoArg == "-"
Call(op, arg, outcome, exc, ret, net, saves, pre, at) ==
    [op |-> op, arg |-> arg, outcome |-> outcome, exc |-> exc, ret |-> ret,
     net |-> net, saves |-> saves, clears |-> 0, verifies |-> 0,
     logged |-> <<>>, pre |-> pre, at |-> at]

(***************************************************************************)
(* save_tokens, file operation by file operation.                          *)
(***************************************************************************)
SaverIds == {1, 2}
IdleSaver == [pc |-> "idle"]
AllIdle == \A p \in SaverIds : sv[p].pc = "idle"

\* The dictionaries a caller hands to save_tokens directly.
StoreInputs ==
    {[access_token |-> "a0", refresh_token |-> "r0",
      expires_at |-> IntTimestamp(clock) + 301],
     [access_token |-> "a3", expires_at |-> IntTimestamp(clock) + 301]}

\* Lines 124-134: the dictionary is stamped, serialized and encrypted.
SaveBegin(p) ==
    /\ AllIdle
    /\ \E tokens \in StoreInputs :
          sv' = [sv EXCEPT ![p] =
                    [pc |-> "open",
                     blob |-> SaveBlob(tokens, clock, DefaultPassword),
                     pre |-> fs]]
    /\ UNCHANGED <<job, fs, clock, env, last, flow>>

\* Line 138: open(temp_path, 'wb').
SaveOpen(p) ==
    /\ sv[p].pc = "open"
    /\ fs' = FsOpenW(fs, TempPath(get_token_path(Username)))
    /\ sv' = [sv EXCEPT ![p].pc = "write"]
    /\ UNCHANGED <<job, clock, env, last, flow>>

\* Line 139: f.write(encrypted_data), a chunk at a time, then close.
SaveWrite(p) ==
    /\ sv[p].pc = "write"
    /\ LET temp == TempPath(get_token_path(Username))
       IN  /\ fs' = FsWriteChunk(fs, temp, sv[p].blob)
           /\ sv' = [sv EXCEPT ![p].pc =
                        IF fs'[temp].written >= BlobChunks
                        THEN "exists" ELSE "write"]
    /\ UNCHANGED <<job, clock, env, last, flow>>

\* Line 142: os.path.exists(self.token_path).
SaveExists(p) ==
    /\ sv[p].pc = "exists"
    /\ sv' = [sv EXCEPT ![p].pc =
                 IF Exists(fs, get_token_path(Username))
                 THEN "unlink" ELSE "rename"]
    /\ UNCHANGED <<job, fs, clock, env, last, flow>>

\* Line 143: os.unlink(self.token_path).
SaveUnlink(p) ==
    /\ sv[p].pc = "unlink"
    /\ fs' = FsUnlink(fs, get_token_path(Username))
    /\ sv' = [sv EXCEPT ![p].pc = "rename"]
    /\ UNCHANGED <<job, clock, env, last, flow>>

\* Line 144: os.rename(temp_path, self.token_path).
SaveRename(p) ==
    /\ sv[p].pc = "rename"
    /\ fs' = FsRename(fs, TempPath(get_token_path(Username)),
                      get_token_path(Username))
    /\ sv' = [sv EXCEPT ![p].pc = "chmod"]
    /\ UNCHANGED <<job, clock, env, last, flow>>

\* Lines 147-153: os.chmod, whose failure is only logged; return True.
SaveChmod(p) ==
    /\ sv[p].pc = "chmod"
    /\ \E chmod_ok \in BOOLEAN :
          fs' = IF chmod_ok
                THEN FsChmod(fs, get_token_path(Username), "0600")
                ELSE fs
    /\ last' = Call("save_tokens", NoArg, "return", "", TRUE, 0, 1,
                    sv[p].pre, "chmod")
    /\ sv' = [sv EXCEPT ![p] = IdleSaver]
    /\ UNCHANGED <<job, clock, env, flow>>

\* Lines 155-163: a file operation raises; the temporary file is removed
\* when it exists (a failure of that removal is passed over); return False.
SaveRaise(p) ==
    /\ sv[p].pc \in {"open", "write", "unlink", "rename"}
    /\ \E cleanup_ok \in BOOLEAN :
          fs' = IF cleanup_ok THEN SaveCleanup(fs, Username) ELSE fs
    /\ last' = Call("save_tokens", NoArg, "return", "", FALSE, 0, 1,
                    sv[p].pre, sv[p].pc)
    /\ sv' = [sv EXCEPT ![p] = IdleSaver]
    /\ UNCHANGED <<job, clock, env, flow>>

\* The process dies in the middle of save_tokens: nothing more is done.
SaveCrash(p) ==
    /\ sv[p].pc # "idle"
    /\ last' = Call("save_tokens", NoArg, "crash", "", FALSE, 0, 1,
                    sv[p].pre, sv[p].pc)
    /\ sv' = [sv EXCEPT ![p] = IdleSaver]
    /\ UNCHANGED <<job, fs, clock, env, flow>>


(***************************************************************************)
(* scripts/auth/oauth_handler.py                                           *)
(*                                                                         *)
(* Each method is an operator from the state it reads and the answers of   *)
(* the outside world (the provider's response, the point where the save    *)
(* fails) to its result: what it returned or raised, the file system it    *)
(* leaves, the remote calls and the save_tokens calls it made.             *)
(***************************************************************************)
Returned(ret, f, net, saves) ==
    [outcome |-> "return", exc |-> "", ret |-> ret, fs |-> f, net |-> net,
     saves |-> saves, clears |-> 0, verifies |-> 0, logged |-> <<>>]

Raised(exc, f, net, saves) ==
    [outcome |-> "raise", exc |-> exc, ret |-> None, fs |-> f, net |-> net,
     saves |-> saves, clears |-> 0, verifies |-> 0, logged |-> <<>>]

\* The access tokens the provider issues: on an exchange, on a refresh.
ExchangedTokens == {"a1"}
RefreshedAccess == {"a2"}
\* expires_in of an answer; 0 stands for an answer without a lifetime.
ExpiresIn == {0, 300, 301}

\* flow.finish(code): the code-for-token exchange.
ExchangeResponses ==
    {[ok |-> FALSE, access_token |-> NoneVal, refresh_token |-> NoneVal,
      expires_in |-> 0]}
    \cup [ok : {TRUE}, access_token : ExchangedTokens,
          refresh_token : {"r1", NoneVal}, expires_in : ExpiresIn]

\* The token endpoint's answer to a refresh.
RefreshResponses ==
    {[ok |-> FALSE, access_token |-> NoneVal, expires_in |-> 0]}
    \cup [ok : {TRUE}, access_token : RefreshedAccess,
          expires_in : ExpiresIn \ {0}]

\* config.get_oauth_config() raises ValueError when the environment lacks the
\* application key or secret.
ConfigRaises(e) == ~e

\* The comparison turned around: expired while the expiry is still ahead.
is_token_expired_Inverted(tokens, t, e) ==
    IF "expires_at" \notin DOMAIN tokens THEN Returned(FALSE, <<>>, 0, 0)
    ELSE IF ConfigRaises(e) THEN Raised("ValueError", <<>>, 0, 0)
    ELSE Returned(t <= (tokens.expires_at - DEFAULT_TOKEN_EXPIRY_BUFFER)
                           * TicksPerSecond,
                  <<>>, 0, 0)

\* A strict comparison: not yet expired at exactly the buffer.
is_token_expired_Strict(tokens, t, e) ==
    IF "expires_at" \notin DOMAIN tokens THEN Returned(FALSE, <<>>, 0, 0)
    ELSE IF ConfigRaises(e) THEN Raised("ValueError", <<>>, 0, 0)
    ELSE Returned(t > (tokens.expires_at - DEFAULT_TOKEN_EXPIRY_BUFFER)
                          * TicksPerSecond,
                  <<>>, 0, 0)

\* _is_token_expired
is_token_expired(tokens, t, e) ==
    IF "expires_at" \notin DOMAIN tokens THEN Returned(FALSE, <<>>, 0, 0)
    ELSE IF ConfigRaises(e) THEN Raised("ValueError", <<>>, 0, 0)
    ELSE Returned(t >= (tokens.expires_at - DEFAULT_TOKEN_EXPIRY_BUFFER)
                           * TicksPerSecond,
                  <<>>, 0, 0)

\* Dropbox(oauth2_refresh_token=...).users_get_current_account(): with a
\* refresh token the client first asks the token endpoint for an access
\* token; without one the call goes out unauthenticated and is rejected.
RemoteRefreshOk(refresh_token, resp) == refresh_token # NoneVal /\ resp.ok

\* The try block's exception let through as it is.
RefreshExcept_Leak(exc) == exc

\* Lines 281-283: whatever the try block raised leaves refresh_tokens as
\* TokenRefreshError.
RefreshExcept(exc) == "TokenRefreshError"

\* The refresh token taken from the answer, which carries none.
RefreshedTokens_FromAnswer(refresh_token, resp, t) ==
    [access_token |-> resp.access_token, refresh_token |-> NoneVal,
     token_type |-> "bearer", refreshed_at |-> IntTimestamp(t)]

\* The dictionary refresh_tokens builds, lines 264-269.
RefreshedTokens(refresh_token, resp, t) ==
    [access_token |-> resp.access_token, refresh_token |-> refresh_token,
     token_type |-> "bearer", refreshed_at |-> IntTimestamp(t)]

\* What a call wrote to the log, added to its result.
WithLog(r, logged) == [r EXCEPT !.logged = logged \o @]

\* The values refresh_tokens puts in its log messages, lines 243-245: the
\* ends of the application key.
RefreshLog == <<"app_...ey">>

\* refresh_tokens
refresh_tokens(f, t, e, refresh_token, resp, fault) ==
    IF ConfigRaises(e) THEN Raised(RefreshExcept("ValueError"), f, 0, 0)
    ELSE IF ~RemoteRefreshOk(refresh_token, resp)
    THEN WithLog(Raised(RefreshExcept("ApiError"), f, 1, 0), RefreshLog)
    ELSE LET s == save_tokens(f, Username, DefaultPassword,
                              RefreshedTokens(refresh_token, resp, t), t, fault)
         IN  IF ~s.ok
             THEN WithLog(Raised(RefreshExcept("TokenStorageError"), s.fs,
                                 1, 1), RefreshLog)
             ELSE WithLog(Returned(s.tokens, s.fs, 1, 1), RefreshLog)

\* Line 214: whether the expired record can be refreshed.
HasRefreshToken(tokens) == "refresh_token" \in DOMAIN tokens

\* The value of an expression, computed once: the element of {expression}.
TheOne(S) == CHOOSE x \in S : TRUE

\* get_valid_tokens
get_valid_tokens(f, t, e, resp, fault) ==
    LET loaded == load_tokens(f, Username, DefaultPassword)
    IN  IF loaded = None THEN Returned(None, f, 0, 0)
        ELSE LET tokens == loaded[1]
                 expired == is_token_expired(tokens, t, e)
             IN  IF expired.outcome = "raise"
                 THEN Raised(expired.exc, f, 0, 0)
                 ELSE IF ~expired.ret THEN Returned(Some(tokens), f, 0, 0)
                 ELSE IF ~HasRefreshToken(tokens) THEN Returned(None, f, 0, 0)
                 ELSE LET r == refresh_tokens(f, t, e, tokens.refresh_token,
                                              resp, fault)
                      IN  IF r.outcome = "raise" THEN r
                          ELSE [r EXCEPT !.ret = Some(r.ret)]

\* Dropbox(oauth2_access_token=...): the client and the token it carries.
Client(access_token) == [oauth2_access_token |-> access_token]

\* get_authenticated_client: get_valid_tokens is called outside any try
\* block, so what it raises goes to the caller as it is.
get_authenticated_client(f, t, e, resp, fault) ==
    TheOne({IF g.outcome = "raise" THEN g
            ELSE IF g.ret = None
            THEN [g EXCEPT !.outcome = "raise",
                           !.exc = "AuthenticationError"]
            ELSE IF "access_token" \notin DOMAIN g.ret[1]
            THEN [g EXCEPT !.outcome = "raise",
                           !.exc = "AuthenticationError", !.ret = None]
            ELSE [g EXCEPT !.ret = Client(g.ret[1].access_token)] :
            g \in {get_valid_tokens(f, t, e, resp, fault)}})

\* The answers of the provider to client.users_get_current_account().
VerifyAnswers == {"ok", "rejected"}

\* A verification taken to have succeeded whatever the provider answered.
Verified_Always(verify) == TRUE

\* client.users_get_current_account() returns, or raises on a rejection.
Verified(verify) == verify = "ok"

\* The values is_authenticated puts in its log message, lines 326-327.
IsAuthLog == <<"Alice", "alice@example.com">>

\* is_authenticated: every exception ends as False (lines 337-339); a
\* failure of the save of lines 330-333 is only logged.
is_authenticated(f, t, e, resp, fault, verify, fault2) ==
    LET answer(g, ret, h, net, saves, verifies) ==
            [Returned(ret, h, net, saves) EXCEPT !.verifies = verifies,
                                                   !.logged = g.logged]
        \* lines 330-335: the save and the return of True
        saved(g, c) ==
            TheOne({WithLog(answer(g, TRUE, s.fs, g.net + c.net + 1,
                                   g.saves + c.saves + 1, 1), IsAuthLog) :
                    s \in {save_tokens(c.fs, Username, DefaultPassword,
                                       g.ret[1], t, fault2)}})
        \* lines 322-323: the client and the account request
        verified(g) ==
            TheOne({IF c.outcome = "raise"
                    THEN answer(g, FALSE, c.fs, g.net + c.net,
                                g.saves + c.saves, 0)
                    ELSE IF ~Verified(verify)
                    THEN answer(g, FALSE, c.fs, g.net + c.net + 1,
                                g.saves + c.saves, 1)
                    ELSE saved(g, c) :
                    c \in {get_authenticated_client(g.fs, t, e, resp,
                                                    fault)}})
    IN  TheOne({IF g.outcome = "raise" \/ g.ret = None
                THEN answer(g, FALSE, g.fs, g.net, g.saves, 0)
                ELSE verified(g) :
                g \in {get_valid_tokens(f, t, e, resp, fault)}})

\* The dictionary finish_authorization builds, lines 136-148.
AuthorizedTokens(resp, t) ==
    LET base == [access_token |-> resp.access_token,
                 refresh_token |-> resp.refresh_token,
                 token_type |-> "bearer", account_id |-> "acct",
                 uid |-> "uid", created_at |-> IntTimestamp(t)]
    IN  IF Truthy(resp.expires_in)
        THEN [k \in DOMAIN base \cup {"expires_at"} |->
                 IF k = "expires_at" THEN IntTimestamp(t) + resp.expires_in
                 ELSE base[k]]
        ELSE base

\* What finish_authorization returns once the tokens are saved and verified:
\* the method ends without a return statement.
FinishReturn(tokens) == None

\* The handler "except Exception" of finish_authorization, lines 163-165:
\* whatever was raised inside the try block, the TokenStorageError of lines
\* 154 and 159 included, leaves as AuthorizationError.
FinishExcept(exc) == "AuthorizationError"

\* An exchange taken to have succeeded whatever the provider answered.
ExchangeOk_Assumed(resp) == TRUE

\* flow.finish(code), lines 70-73: it returns the provider's answer, or
\* raises, which lines 96-98 turn into AuthorizationError.
ExchangeOk(resp) == resp.ok

\* The whole answer written to the log, the access token with it.
ExchangeLog_Unfiltered(resp) ==
    <<resp.access_token,
      IF resp.refresh_token # NoneVal THEN "True" ELSE "False",
      ToString(resp.expires_in), "bearer", "acct", "uid">>

\* The values _exchange_code_for_token puts in its log message, lines
\* 76-85: the entries of token_data other than access_token.
ExchangeLog(resp) ==
    <<IF resp.refresh_token # NoneVal THEN "True" ELSE "False",
      ToString(resp.expires_in), "bearer", "acct", "uid">>

\* finish_authorization
finish_authorization(f, t, e, resp, fault) ==
    IF ConfigRaises(e) THEN Raised(FinishExcept("AuthorizationError"), f, 0, 0)
    ELSE IF ~ExchangeOk(resp)
    THEN Raised(FinishExcept("AuthorizationError"), f, 1, 0)
    ELSE LET s == save_tokens(f, Username, DefaultPassword,
                              AuthorizedTokens(resp, t), t, fault)
             logged == ExchangeLog(resp)
         IN  IF ~s.ok
             THEN WithLog(Raised(FinishExcept("TokenStorageError"), s.fs,
                                 1, 1), logged)
             ELSE IF load_tokens(s.fs, Username, DefaultPassword) = None
             THEN WithLog(Raised(FinishExcept("TokenStorageError"), s.fs,
                                 1, 1), logged)
             ELSE WithLog(Returned(FinishReturn(s.tokens), s.fs, 1, 1),
                          logged)

\* The methods SecureTokenStorage defines, secure_storage.py lines 58-174.
StorageMethods ==
    {"__init__", "_get_fernet", "load_tokens", "save_tokens", "clear_tokens"}

\* The method of its storage logout calls, line 350.
LogoutCalls == "delete_tokens"

\* logout: a call of a method the storage does not have raises
\* AttributeError, which the handler "except Exception" turns into False.
logout(f, fault) ==
    IF LogoutCalls \notin StorageMethods
    THEN [Returned(FALSE, f, 0, 0) EXCEPT !.clears = 0]
    ELSE IF LogoutCalls = "clear_tokens"
    THEN LET c == clear_tokens(f, Username, fault)
         IN  [Returned(c.ok, c.fs, 0, 0) EXCEPT !.clears = 1]
    ELSE [Returned(None, f, 0, 0) EXCEPT !.clears = 0]

(***************************************************************************)
(* The calls a consumer makes, one at a time.                              *)
(***************************************************************************)
\* The answers a call consumed: a response it never asked for and a fault of
\* a save it never made are not part of what happened.
Consumed(resp, fault, r) ==
    [resp |-> IF r.net > 0 THEN resp ELSE [ok |-> FALSE],
     fault |-> IF r.saves > 0 THEN fault ELSE "none"]

\* Of the answers that differ only in what the call never consumed, one is
\* kept: the rejection for a question never asked, no fault for a save never
\* made.
Asked(resp, fault, r) ==
    /\ r.net = 0 => ~resp.ok
    /\ r.saves = 0 => fault = "none"

\* The failures of save_tokens a caller can tell apart: none, one that leaves
\* the destination as it was, one that comes after the destination is removed.
CallFaults == {"none", "write", "rename"}

Done(op, arg, r) ==
    /\ fs' = r.fs
    /\ last' = [Call(op, arg, r.outcome, r.exc, r.ret, r.net, r.saves, fs,
                     clock) EXCEPT !.clears = r.clears,
                                   !.verifies = r.verifies,
                                   !.logged = r.logged]
    /\ UNCHANGED <<job, clock, env, sv, flow>>

FinishAuthorization ==
    /\ AllIdle
    /\ \E resp \in ExchangeResponses, fault \in CallFaults :
          \E r \in {finish_authorization(fs, clock, env, resp, fault)} :
              /\ Asked(resp, fault, r)
              /\ Done("finish_authorization", Consumed(resp, fault, r), r)

GetValidTokens ==
    /\ AllIdle
    /\ \E resp \in RefreshResponses, fault \in CallFaults :
          \E r \in {get_valid_tokens(fs, clock, env, resp, fault)} :
              /\ Asked(resp, fault, r)
              /\ Done("get_valid_tokens", Consumed(resp, fault, r), r)

RefreshTokens ==
    /\ AllIdle
    /\ \E refresh_token \in {"r1", "r2"}, resp \in RefreshResponses,
          fault \in CallFaults :
          \E r \in {refresh_tokens(fs, clock, env, refresh_token, resp,
                                    fault)} :
              Done("refresh_tokens",
                   [c \in {"resp", "fault", "refresh_token"} |->
                       IF c = "refresh_token" THEN refresh_token
                       ELSE Consumed(resp, fault, r)[c]], r)

GetAuthenticatedClient ==
    /\ AllIdle
    /\ \E resp \in RefreshResponses, fault \in CallFaults :
          \E r \in {get_authenticated_client(fs, clock, env, resp, fault)} :
              /\ Asked(resp, fault, r)
              /\ Done("get_authenticated_client", Consumed(resp, fault, r),
                      r)

\* The log keeps the answers the call consumed: those of the refresh, that
\* of the verification, and the fault of the save that follows it.
IsAuthenticated ==
    /\ AllIdle
    /\ \E resp \in RefreshResponses, fault \in CallFaults :
          \E g \in {get_valid_tokens(fs, clock, env, resp, fault)} :
              /\ Asked(resp, fault, g)
              /\ \E yields \in {g.outcome = "return" /\ g.ret # None} :
                 \E verify \in IF yields THEN VerifyAnswers ELSE {"ok"},
                    fault2 \in IF yields THEN CallFaults ELSE {"none"} :
                    \E r \in {is_authenticated(fs, clock, env, resp, fault,
                                                verify, fault2)} :
                        /\ r.verifies = 0 => verify = "ok"
                        /\ r.saves = g.saves => fault2 = "none"
                        /\ Done("is_authenticated",
                                [resp |-> Consumed(resp, fault, g).resp,
                                 fault |-> Consumed(resp, fault, g).fault,
                                 verify |-> IF r.verifies > 0 THEN verify
                                            ELSE "unasked",
                                 fault2 |-> IF r.saves > g.saves THEN fault2
                                            ELSE "none"],
                                r)

\* A caller of the storage saves a dictionary of its own.
SaveTokens ==
    /\ AllIdle
    /\ \E tokens \in {[access_token |-> "a0",
                       expires_at |-> IntTimestamp(clock) + 301]},
          fault \in CallFaults :
          LET s == save_tokens(fs, Username, DefaultPassword, tokens, clock,
                               fault)
          IN  Done("save_tokens", NoArg, Returned(s.ok, s.fs, 0, 1))

\* The records _is_token_expired is asked about: without expires_at, or
\* expiring this many seconds from now.
ProbeOffsets == {-3600, 299, 300, 301, 3600}

IsTokenExpired ==
    /\ AllIdle
    /\ \E tokens \in {[access_token |-> "a0"]}
                     \cup {[expires_at |-> IntTimestamp(clock) + d] :
                            d \in ProbeOffsets} :
          LET r == is_token_expired(tokens, clock, env)
          IN  Done("_is_token_expired", tokens, [r EXCEPT !.fs = fs])

\* A caller of the storage clears the record. The log keeps which call came
\* before this one.
ClearTokens ==
    /\ AllIdle
    /\ \E fault \in ClearFaults :
          LET c == clear_tokens(fs, Username, fault)
          IN  Done("clear_tokens",
                   [fault |-> IF c.unlinks > 0 THEN fault ELSE "none",
                    after |-> last.op],
                   [Returned(c.ok, c.fs, 0, 0) EXCEPT !.clears = 1])

Logout ==
    /\ AllIdle
    /\ \E fault \in ClearFaults :
          LET r == logout(fs, fault)
          IN  Done("logout",
                   [fault |-> IF r.clears > 0 THEN fault ELSE "none"], r)

(***************************************************************************)
(* Time.                                                                   *)
(***************************************************************************)
Tick ==
    /\ AllIdle
    /\ clock < MaxClock
    /\ clock' = clock + 1
    /\ last' = Call("tick", NoArg, "return", "", None, 0, 0, fs, clock')
    /\ UNCHANGED <<job, fs, env, sv, flow>>

(***************************************************************************)
(* scripts/auth/cli.py: the callback listener and run_oauth_flow.          *)
(*                                                                         *)
(* Three kinds of thread: the one that runs run_oauth_flow (flow.pc), the  *)
(* one that runs httpd.serve_forever (flow.srv) and the ones do_GET starts *)
(* to call server.shutdown (flow.starting of them not yet run,             *)
(* flow.waiting of them inside shutdown).                                  *)
(***************************************************************************)
\* parse_qs of the queries that reach the port: for each parameter the list
\* of its values, empty when the parameter is not given.
Requests ==
    {[code |-> <<"c1", "c2">>, error |-> <<>>],
     [code |-> <<"c3">>, error |-> <<>>],
     [code |-> <<"c1">>, error |-> <<"access_denied">>],
     [code |-> <<>>, error |-> <<"access_denied", "server_error">>],
     [code |-> <<>>, error |-> <<>>]}

\* A do_GET that keeps the last value of the parameter.
do_GET_LastValue(params) ==
    IF params.code # <<>>
    THEN [auth_code |-> params.code[Len(params.code)], error |-> NoneVal,
          status |-> 200, body |-> <<"Authentication successful!">>,
          shutdown |-> "thread"]
    ELSE IF params.error # <<>>
    THEN [auth_code |-> NoneVal, error |-> params.error[Len(params.error)],
          status |-> 400,
          body |-> <<"Error: ", params.error[Len(params.error)]>>,
          shutdown |-> "thread"]
    ELSE [auth_code |-> NoneVal, error |-> NoneVal, status |-> 400,
          body |-> <<"Invalid request">>, shutdown |-> "thread"]

\* A do_GET that calls server.shutdown() itself, on the serving thread.
do_GET_ShutdownInline(params) ==
    [do_GET_LastValue(params) EXCEPT !.shutdown = "inline"]

\* OAuthCallbackHandler.__init__ and do_GET: the attributes of the handler
\* instance once the request is handled, the response, and how the shutdown
\* of the server is asked for (lines 53-56, after every request).
do_GET(params) ==
    IF params.code # <<>>
    THEN [auth_code |-> params.code[1], error |-> NoneVal, status |-> 200,
          body |-> <<"Authentication successful!">>, shutdown |-> "thread"]
    ELSE IF params.error # <<>>
    THEN [auth_code |-> NoneVal, error |-> params.error[1], status |-> 400,
          body |-> <<"Error: ", params.error[1]>>, shutdown |-> "thread"]
    ELSE [auth_code |-> NoneVal, error |-> NoneVal, status |-> 400,
          body |-> <<"Invalid request">>, shutdown |-> "thread"]

\* A handler class that carries a code of its own, as the mock of
\* test_run_oauth_flow_success does.
HandlerClass_WithCode ==
    [__init__ |-> "function", do_GET |-> "function", auth_code |-> "c1"]

\* The attributes of the class OAuthCallbackHandler: auth_code and error are
\* set by __init__ on each instance, not on the class.
HandlerClass == [__init__ |-> "function", do_GET |-> "function"]

\* getattr(httpd.RequestHandlerClass, name, None): run_oauth_flow looks at
\* the class the server was given, not at the instance that handled the
\* request.
ClassAttr(name) ==
    IF name \in DOMAIN HandlerClass THEN HandlerClass[name] ELSE NoneVal

\* The argument run_oauth_flow gives to finish_authorization, line 101.
RedirectUrl(code) == <<"http://localhost:5000/?code=", code>>

FlowIdle ==
    [pc |-> "idle", events |-> <<>>, srv |-> "none",
     shutdown_request |-> FALSE, is_shut_down |-> FALSE,
     starting |-> 0, waiting |-> 0, queue |-> <<>>, arrivals |-> 0,
     refused |-> 0, handled |-> <<>>, timedOut |-> FALSE,
     finished |-> <<>>, result |-> NoneVal, closed |-> FALSE,
     cmd |-> NoneVal, no_browser |-> FALSE, calls |-> <<>>,
     success |-> NoneVal, exit |-> <<>>]

Happened(event) == \E i \in DOMAIN flow.events : flow.events[i] = event

\* A flow that reports success however it ended.
FlowReturn_AlwaysTrue(result) ==
    [flow EXCEPT !.pc = "done", !.result = TRUE,
                 !.closed = Happened("bind")]

\* How run_oauth_flow ends: the value it returns; leaving the with block
\* closes the server socket.
FlowReturn(result) ==
    [flow EXCEPT !.pc = "done", !.result = result,
                 !.closed = Happened("bind")]

\* Lines 69-74: the handler is built and the authorization URL made; a
\* missing configuration ends the flow (lines 112-114).
FlowBegin ==
    /\ flow.pc = "idle"
    /\ flow' = IF ConfigRaises(env) THEN FlowReturn(FALSE)
               ELSE [flow EXCEPT !.pc = "browser"]
    /\ UNCHANGED <<job, fs, clock, env, sv, last>>

\* Lines 76-80: webbrowser.open(auth_url); a failure is only logged.
FlowOpenBrowser ==
    /\ flow.pc = "browser"
    /\ flow' = [flow EXCEPT !.pc = "bind", !.events = Append(@, "open")]
    /\ UNCHANGED <<job, fs, clock, env, sv, last>>

\* Lines 83-87: HTTPServer(('localhost', port), OAuthCallbackHandler) binds
\* and listens, or raises OSError when the port is taken (lines 115-117).
FlowBind ==
    /\ flow.pc = "bind"
    /\ \E free \in BOOLEAN :
          flow' = IF free
                  THEN [flow EXCEPT !.pc = "serve",
                                    !.events = Append(@, "bind")]
                  ELSE FlowReturn(FALSE)
    /\ UNCHANGED <<job, fs, clock, env, sv, last>>

\* Lines 89-91: the serving thread is started.
FlowServe ==
    /\ flow.pc = "serve"
    /\ flow' = [flow EXCEPT !.pc = "join", !.srv = "select"]
    /\ UNCHANGED <<job, fs, clock, env, sv, last>>

\* A request reaches the listening socket and waits to be accepted.
FlowArrive ==
    /\ Happened("bind") /\ ~flow.closed
    /\ flow.arrivals < MaxRequests
    /\ \E req \in Requests :
          flow' = [flow EXCEPT !.queue = Append(@, req),
                               !.arrivals = @ + 1]
    /\ UNCHANGED <<job, fs, clock, env, sv, last>>

\* The browser, already open, is redirected to a port nothing listens on:
\* the connection is refused.
FlowRefused ==
    /\ Happened("open") /\ (~Happened("bind") \/ flow.closed)
    /\ flow.arrivals < MaxRequests
    /\ flow' = [flow EXCEPT !.refused = @ + 1, !.arrivals = @ + 1]
    /\ UNCHANGED <<job, fs, clock, env, sv, last>>

\* serve_forever, one turn of its loop with a request ready: a handler
\* instance is made for it and runs do_GET.
SrvHandle ==
    /\ flow.srv = "select"
    /\ ~flow.shutdown_request
    /\ flow.queue # <<>>
    /\ LET h == do_GET(Head(flow.queue))
       IN  flow' = [flow EXCEPT
                      !.queue = Tail(@),
                      !.handled = Append(@, [req |-> Head(flow.queue),
                                             handler |-> h]),
                      !.starting = IF h.shutdown = "thread" THEN @ + 1
                                   ELSE @,
                      \* shutdown() on the serving thread waits for
                      \* serve_forever, which is its caller, to end
                      !.shutdown_request = IF h.shutdown = "inline" THEN TRUE
                                           ELSE @,
                      !.srv = IF h.shutdown = "inline" THEN "shutdown"
                              ELSE @]
    /\ UNCHANGED <<job, fs, clock, env, sv, last>>

\* serve_forever sees the shutdown request and leaves its loop.
SrvStop ==
    /\ flow.srv = "select"
    /\ flow.shutdown_request
    /\ flow' = [flow EXCEPT !.srv = "stopped", !.shutdown_request = FALSE,
                            !.is_shut_down = TRUE]
    /\ UNCHANGED <<job, fs, clock, env, sv, last>>

\* A thread started by do_GET runs: server.shutdown() sets the request flag
\* and waits for serve_forever to end.
ShutdownCall ==
    /\ flow.starting > 0
    /\ flow' = [flow EXCEPT !.starting = @ - 1, !.waiting = @ + 1,
                            !.shutdown_request = TRUE]
    /\ UNCHANGED <<job, fs, clock, env, sv, last>>

\* server.shutdown() returns once serve_forever has ended.
ShutdownReturn ==
    /\ flow.waiting > 0
    /\ flow.is_shut_down
    /\ flow' = [flow EXCEPT !.waiting = @ - 1]
    /\ UNCHANGED <<job, fs, clock, env, sv, last>>

\* Line 94: server_thread.join(timeout=300) returns because the serving
\* thread ended.
FlowJoined ==
    /\ flow.pc = "join"
    /\ flow.srv = "stopped"
    /\ flow' = [flow EXCEPT !.pc = "check"]
    /\ UNCHANGED <<job, fs, clock, env, sv, last>>

\* Line 94: the join gives up after its timeout, the server still serving.
FlowTimeout ==
    /\ flow.pc = "join"
    /\ flow.srv # "stopped"
    /\ flow' = [flow EXCEPT !.pc = "check", !.timedOut = TRUE]
    /\ UNCHANGED <<job, fs, clock, env, sv, last>>

\* Lines 96-110: what the flow finds on httpd.RequestHandlerClass decides
\* whether finish_authorization is called; an exception it raises ends the
\* flow with False (lines 115-117).
FlowCheck ==
    /\ flow.pc = "check"
    /\ \E resp \in ExchangeResponses, fault \in CallFaults :
          IF ClassAttr("auth_code") # NoneVal
          THEN LET r == finish_authorization(fs, clock, env, resp, fault)
               IN  /\ fs' = r.fs
                   /\ flow' = [FlowReturn(r.outcome = "return") EXCEPT
                                 !.finished =
                                    Append(@, RedirectUrl(
                                                 ClassAttr("auth_code")))]
          ELSE /\ fs' = fs
               /\ flow' = FlowReturn(FALSE)
    /\ UNCHANGED <<job, clock, env, sv, last>>

(***************************************************************************)
(* cli.main, cli.py lines 182-274: the command line is parsed, the         *)
(* operation of the command is called and main ends.  flow.cmd is the      *)
(* command, flow.calls the operations main called with their username,     *)
(* flow.success what the operation reported and flow.exit how main ended:  *)
(* by returning a status or through sys.exit.                              *)
(***************************************************************************)
\* The subcommands main registers, lines 197-211.
Commands == {"login", "logout", "status"}

CalledWith(op) == [op |-> op, username |-> Username]

Exit(via, status) == <<[via |-> via, status |-> status]>>

\* main has not been started, and no login was started without it.
MainStarts == flow.cmd = NoneVal /\ flow.pc = "idle"

MainEnded(command, no_browser, calls, success, exit) ==
    [FlowIdle EXCEPT !.pc = "exited", !.cmd = command,
                     !.no_browser = no_browser, !.calls = calls,
                     !.success = success, !.exit = exit]

\* Line 222: parse_args ends the process through sys.exit(2) on a command
\* that is no subcommand; "check" is none.
MainRejected ==
    /\ MainStarts
    /\ \E command \in {"check"} \ Commands :
          flow' = MainEnded(command, FALSE, <<>>, NoneVal,
                            Exit("sys.exit", 2))
    /\ UNCHANGED <<job, fs, clock, env, sv, last>>

\* Lines 224-226: no command given.
MainNoCommand ==
    /\ MainStarts
    /\ flow' = MainEnded("", FALSE, <<>>, NoneVal, Exit("return", 1))
    /\ UNCHANGED <<job, fs, clock, env, sv, last>>

\* Lines 229, 240: login calls run_oauth_flow, which the actions of the
\* login carry out.
MainLogin ==
    /\ MainStarts
    /\ flow' = [flow EXCEPT !.cmd = "login",
                            !.calls = <<CalledWith("run_oauth_flow")>>]
    /\ UNCHANGED <<job, fs, clock, env, sv, last>>

\* Lines 241-245, 270: what run_oauth_flow returned decides the status
\* main returns.
MainLoginReturn ==
    /\ flow.cmd = "login"
    /\ flow.pc = "done"
    /\ flow.exit = <<>>
    /\ flow' = [flow EXCEPT
                  !.success = IF flow.result THEN "True" ELSE "False",
                  !.exit = Exit("return", IF flow.result THEN 0 ELSE 1)]
    /\ UNCHANGED <<job, fs, clock, env, sv, last>>

\* Lines 231-238: login --no-browser.  get_authorization_url raises
\* without a configuration; finish_authorization returns nothing, so
\* tokens.get raises AttributeError; line 272 turns every exception into
\* status 1.
MainLoginNoBrowser ==
    /\ MainStarts
    /\ IF ConfigRaises(env)
       THEN /\ flow' = MainEnded("login", TRUE,
                                 <<CalledWith("get_authorization_url")>>,
                                 NoneVal, Exit("return", 1))
            /\ fs' = fs
       ELSE \E resp \in ExchangeResponses, fault \in CallFaults :
               LET r == finish_authorization(fs, clock, env, resp, fault)
                   tokens == IF r.outcome = "return" THEN r.ret ELSE None
               IN  /\ Asked(resp, fault, r)
                   /\ fs' = r.fs
                   /\ flow' =
                         MainEnded("login", TRUE,
                                   <<CalledWith("get_authorization_url"),
                                     CalledWith("finish_authorization")>>,
                                   NoneVal,
                                   Exit("return",
                                        IF tokens = None THEN 1 ELSE 0))
    /\ UNCHANGED <<job, clock, env, sv, last>>

\* logout_user, lines 142-160: True when logout is, nothing when it is
\* not (the else branch has no return), False on an exception.
logout_user(f, fault) ==
    LET r == logout(f, fault)
    IN  [fs |-> r.fs,
         ret |-> IF r.outcome = "raise" THEN "False"
                 ELSE IF r.ret = TRUE THEN "True" ELSE "None"]

\* Lines 247-252, 270.
MainLogout ==
    /\ MainStarts
    /\ \E fault \in ClearFaults :
          LET u == logout_user(fs, fault)
          IN  /\ fs' = u.fs
              /\ flow' = MainEnded("logout", FALSE,
                                   <<CalledWith("logout_user")>>, u.ret,
                                   Exit("return",
                                        IF u.ret = "True" THEN 0 ELSE 1))
    /\ UNCHANGED <<job, clock, env, sv, last>>

\* Lines 254-266 with the get_authenticated_client of cli.py, lines
\* 163-180: a client or, on any exception, nothing; the account request
\* of line 258 tells whether the service accepts the client.
MainStatus ==
    /\ MainStarts
    /\ \E resp \in RefreshResponses, fault \in CallFaults,
          verify \in VerifyAnswers :
          LET c == get_authenticated_client(fs, clock, env, resp, fault)
              client == c.outcome = "return"
          IN  /\ Asked(resp, fault, c)
              /\ ~client => verify = "ok"
              /\ fs' = c.fs
              /\ flow' = MainEnded("status", FALSE,
                                   <<CalledWith("get_authenticated_client")>>,
                                   IF client THEN "client" ELSE "None",
                                   Exit("return",
                                        IF client /\ Verified(verify)
                                        THEN 0 ELSE 1))
    /\ UNCHANGED <<job, clock, env, sv, last>>

NextFlow ==
    \/ MainRejected
    \/ MainNoCommand
    \/ MainLogin
    \/ MainLoginReturn
    \/ MainLoginNoBrowser
    \/ MainLogout
    \/ MainStatus
    \/ FlowBegin
    \/ FlowOpenBrowser
    \/ FlowBind
    \/ FlowServe
    \/ FlowArrive
    \/ FlowRefused
    \/ SrvHandle
    \/ SrvStop
    \/ ShutdownCall
    \/ ShutdownReturn
    \/ FlowJoined
    \/ FlowTimeout
    \/ FlowCheck

(***************************************************************************)
(* scripts/auth_dropbox.py: the main the module ends up with, the second   *)
(* definition (lines 154-208), which replaces the first (lines 50-118).    *)
(* Its state is kept as that of cli.main: flow.cmd, flow.calls,            *)
(* flow.success (what the operation returned) and flow.exit, which here    *)
(* also keeps the messages main printed about the outcome.                 *)
(***************************************************************************)
\* check_requirements, lines 34-48: the application key and secret are in
\* the environment.
check_requirements(e) == e

\* The messages of lines 171, 177-179, 186 and 190.
ScriptExit(status, printed) ==
    <<[via |-> "return", status |-> status, printed |-> printed]>>

\* bool as main keeps it in flow.success.
PyBool(b) == IF b THEN "True" ELSE "False"

\* Lines 160-161.
ScriptNoRequirements ==
    /\ MainStarts
    /\ ~check_requirements(env)
    /\ flow' = MainEnded("", FALSE, <<>>, NoneVal, ScriptExit(1, {}))
    /\ UNCHANGED <<job, fs, clock, env, sv, last>>

\* Lines 163 and 152: parse_args ends the process through sys.exit(2) on a
\* command that is no subcommand of the second parser; "check" is none.
ScriptRejected ==
    /\ MainStarts
    /\ check_requirements(env)
    /\ \E command \in {"check"} \ Commands :
          flow' = MainEnded(command, FALSE, <<>>, NoneVal,
                            <<[via |-> "sys.exit", status |-> 2,
                               printed |-> {}]>>)
    /\ UNCHANGED <<job, fs, clock, env, sv, last>>

\* Lines 193-195: no command given.
ScriptNoCommand ==
    /\ MainStarts
    /\ check_requirements(env)
    /\ flow' = MainEnded("", FALSE, <<>>, NoneVal,
                         ScriptExit(1, {"no command"}))
    /\ UNCHANGED <<job, fs, clock, env, sv, last>>

\* Lines 166-170: login calls run_oauth_flow, which the actions of the
\* login carry out.
ScriptLogin ==
    /\ MainStarts
    /\ check_requirements(env)
    /\ flow' = [flow EXCEPT !.cmd = "login",
                            !.calls = <<CalledWith("run_oauth_flow")>>]
    /\ UNCHANGED <<job, fs, clock, env, sv, last>>

\* The status of a login that looks at what run_oauth_flow returned.
LoginExit_Checked(result) ==
    IF result THEN ScriptExit(0, {"success"}) ELSE ScriptExit(1, {})

\* Lines 170-172: the value run_oauth_flow returns is dropped; the success
\* message is printed and 0 returned.
LoginExit(result) == ScriptExit(0, {"success"})

ScriptLoginReturn ==
    /\ flow.cmd = "login"
    /\ flow.pc = "done"
    /\ flow.exit = <<>>
    /\ flow' = [flow EXCEPT !.success = PyBool(flow.result),
                            !.exit = LoginExit(flow.result)]
    /\ UNCHANGED <<job, fs, clock, env, sv, last>>

\* Lines 174-180.
ScriptLogout ==
    /\ MainStarts
    /\ check_requirements(env)
    /\ \E fault \in ClearFaults :
          LET u == logout_user(fs, fault)
          IN  /\ fs' = u.fs
              /\ flow' = MainEnded("logout", FALSE,
                                   <<CalledWith("logout_user")>>, u.ret,
                                   IF u.ret = "True"
                                   THEN ScriptExit(0, {"logged out"})
                                   ELSE ScriptExit(1, {"logout failed"}))
    /\ UNCHANGED <<job, clock, env, sv, last>>

\* check_auth, cli.py lines 120-139: True when is_authenticated is, False
\* when it is not or when anything raised.
check_auth(f, t, e, resp, fault, verify, fault2) ==
    TheOne({[fs |-> a.fs, net |-> a.net, saves |-> a.saves,
             verifies |-> a.verifies,
             ret |-> PyBool(a.outcome = "return" /\ a.ret = TRUE)] :
            a \in {is_authenticated(f, t, e, resp, fault, verify, fault2)}})

\* A value status['authenticated'] can be taken of: a bool has no items,
\* the subscript raises TypeError.
Subscriptable(value) == value \notin {"True", "False"}

\* The status of a status command that takes check_auth's bool as it is.
StatusExit_Bool(status) ==
    IF status = "True" THEN ScriptExit(0, {"authenticated"})
    ELSE ScriptExit(1, {"not authenticated"})

\* Lines 184-191 and 206-208: status['authenticated'] is evaluated; when
\* it raises, the last except clause returns 1.
StatusExit(status) ==
    IF ~Subscriptable(status) THEN ScriptExit(1, {})
    ELSE IF status.authenticated THEN ScriptExit(0, {"authenticated"})
    ELSE ScriptExit(1, {"not authenticated"})

\* Lines 182-184: status calls check_auth.
ScriptStatus ==
    /\ MainStarts
    /\ check_requirements(env)
    /\ \E resp \in RefreshResponses, fault \in CallFaults :
          \E g \in {get_valid_tokens(fs, clock, env, resp, fault)} :
              /\ Asked(resp, fault, g)
              /\ \E yields \in {g.outcome = "return" /\ g.ret # None} :
                 \E verify \in IF yields THEN VerifyAnswers ELSE {"ok"},
                    fault2 \in IF yields THEN CallFaults ELSE {"none"} :
                    \E status \in {check_auth(fs, clock, env, resp, fault,
                                              verify, fault2)} :
                        /\ status.verifies = 0 => verify = "ok"
                        /\ status.saves = g.saves => fault2 = "none"
                        /\ fs' = status.fs
                        /\ flow' = MainEnded("status", FALSE,
                                             <<CalledWith("check_auth")>>,
                                             status.ret,
                                             StatusExit(status.ret))
    /\ UNCHANGED <<job, clock, env, sv, last>>

NextScript ==
    \/ ScriptNoRequirements
    \/ ScriptRejected
    \/ ScriptNoCommand
    \/ ScriptLogin
    \/ ScriptLoginReturn
    \/ ScriptLogout
    \/ ScriptStatus
    \/ FlowBegin
    \/ FlowOpenBrowser
    \/ FlowBind
    \/ FlowServe
    \/ FlowArrive
    \/ FlowRefused
    \/ SrvHandle
    \/ SrvStop
    \/ ShutdownCall
    \/ ShutdownReturn
    \/ FlowJoined
    \/ FlowTimeout
    \/ FlowCheck
    \/ Tick

(***************************************************************************)
(* rss_to_kobo.py and scripts/upload_to_dropbox.py: one run of the         *)
(* pipeline.  job is the state of the run: where main or upload_to_dropbox *)
(* stands (pc), the steps main attempted in their order, what fetch_all    *)
(* and build_epub gave, the file being uploaded and the position in it,    *)
(* the cursor of the upload session, the calls made on the Dropbox client  *)
(* in their order, what upload_to_dropbox returned and the status main     *)
(* returned.                                                               *)
(***************************************************************************)
\* Line 21: the chunk length, 4 MiB in the code, counted here in units of
\* which a file holds a few.
CHUNK_SIZE == 2
\* The EPUB is 0 to MaxFileSize units long.
MaxFileSize == 7

JobIdle ==
    [pc |-> "idle", no_upload |-> FALSE, steps |-> <<>>,
     feeds_data |-> None, epub |-> NoneVal, file_size |-> 0,
     client |-> NoneVal, tell |-> 0, offset |-> None, calls |-> <<>>,
     uploaded |-> NoneVal, status |-> <<>>]

\* main returns: its status is kept.
MainReturn(j, status) == [j EXCEPT !.pc = "exited", !.status = <<status>>]

\* upload_to_dropbox returns to main, line 169.
UploadReturn(j, result) ==
    [j EXCEPT !.pc = "uploaded",
              !.uploaded = IF result THEN "True" ELSE "False"]

\* What fetch_all gives, fetch_and_build.py lines 155-202: the articles of
\* each feed that gave some (their number, per feed), no entry for a feed
\* that gave none.
FeedsData == {<<>>, <<1>>, <<2, 1>>}

\* Line 127 of rss_to_kobo.py.
NoFeedData(feeds_data) ==
    \/ feeds_data = <<>>
    \/ ~\E i \in DOMAIN feeds_data : feeds_data[i] > 0

\* Lines 88-107: the arguments are parsed and the modules imported; an
\* ImportError ends main with 1.
MainBegin ==
    /\ job.pc = "idle"
    /\ \E no_upload \in BOOLEAN, imported \in BOOLEAN :
          job' = IF imported
                 THEN [job EXCEPT !.pc = "fetch", !.no_upload = no_upload]
                 ELSE MainReturn([job EXCEPT !.no_upload = no_upload], 1)
    /\ UNCHANGED <<fs, clock, env, sv, last, flow>>

\* Step 1, lines 110-135: FeedFetcher(user).fetch_all(); an exception or
\* no article at all ends main with 1.
MainFetch ==
    /\ job.pc = "fetch"
    /\ \E raises \in BOOLEAN, feeds_data \in FeedsData :
          LET attempted == [job EXCEPT !.steps = Append(@, "fetch")]
          IN  /\ raises => feeds_data = <<>>
              /\ job' = IF raises THEN MainReturn(attempted, 1)
                        ELSE IF NoFeedData(feeds_data)
                        THEN MainReturn([attempted EXCEPT
                                           !.feeds_data = Some(feeds_data)],
                                        1)
                        ELSE [attempted EXCEPT
                                !.pc = "build",
                                !.feeds_data = Some(feeds_data)]
    /\ UNCHANGED <<fs, clock, env, sv, last, flow>>

\* What became of build_epub: it raised, it returned a path with no file
\* behind it, or a path to the file it wrote (epub_builder.py lines
\* 175-244 return a path or raise).
BuildOutcomes == {"raise", "missing", "file"}

\* Step 2, lines 138-161.
MainBuild ==
    /\ job.pc = "build"
    /\ \E outcome \in BuildOutcomes, file_size \in 0..MaxFileSize :
          LET attempted == [job EXCEPT !.steps = Append(@, "build"),
                                       !.epub = outcome]
          IN  /\ outcome # "file" => file_size = 0
              /\ job' = IF outcome = "file"
                        THEN [attempted EXCEPT !.pc = "built",
                                               !.file_size = file_size]
                        ELSE MainReturn(attempted, 1)
    /\ UNCHANGED <<fs, clock, env, sv, last, flow>>

\* An upload whatever the command line said.
UploadAttempted_Always(no_upload, epub) == TRUE

\* Line 164: epub_path is a path here, never None.
UploadAttempted(no_upload, epub) == ~no_upload /\ epub # NoneVal

\* Step 3, lines 164-169 and 181-190: upload_to_dropbox is called, or main
\* ends without it.
MainUpload ==
    /\ job.pc = "built"
    /\ job' = IF UploadAttempted(job.no_upload, job.epub)
              THEN [job EXCEPT !.pc = "upload",
                               !.steps = Append(@, "upload")]
              ELSE IF ~job.no_upload THEN MainReturn(job, 1)
              ELSE MainReturn(job, 0)
    /\ UNCHANGED <<fs, clock, env, sv, last, flow>>

\* Lines 171-179 and 188-190: what upload_to_dropbox returned decides.
MainUploaded ==
    /\ job.pc = "uploaded"
    /\ job' = MainReturn(job, IF job.uploaded = "True" THEN 0 ELSE 1)
    /\ UNCHANGED <<fs, clock, env, sv, last, flow>>

\* get_dropbox_client, upload_to_dropbox.py lines 24-38: the client of the
\* handler, nothing when the handler raises.
get_dropbox_client(f, t, e, resp, fault) ==
    TheOne({[fs |-> c.fs, net |-> c.net, saves |-> c.saves,
             ret |-> IF c.outcome = "raise" THEN None ELSE Some(c.ret)] :
            c \in {get_authenticated_client(f, t, e, resp, fault)}})

\* One call on the Dropbox client: the bytes [from, to) of the file it was
\* given, the offset of the cursor it was given (None without a cursor)
\* and whether it returned or raised.
ApiCall(api, from, to, cursor, ok) ==
    [api |-> api, from |-> from, to |-> to, cursor |-> cursor, ok |-> ok]

\* f.read(n) at position tell: the position afterwards.
ReadTo(tell, n, file_size) ==
    IF tell + n < file_size THEN tell + n ELSE file_size

\* upload_to_dropbox, lines 55-75: the local file is looked for, the client
\* obtained and the size of the file taken.  The file main found at line
\* 151 can be gone by now.
UploadBegin ==
    /\ job.pc = "upload"
    /\ \E exists \in BOOLEAN, resp \in RefreshResponses,
          fault \in CallFaults :
          IF ~exists
          THEN /\ ~resp.ok /\ fault = "none"
               /\ job' = UploadReturn(job, FALSE)
               /\ fs' = fs
          ELSE \E dbx \in {get_dropbox_client(fs, clock, env, resp, fault)} :
                  /\ Asked(resp, fault, dbx)
                  /\ fs' = dbx.fs
                  /\ job' = IF dbx.ret = None
                            THEN UploadReturn([job EXCEPT !.client = "None"],
                                              FALSE)
                            ELSE [job EXCEPT
                                    !.client = "client",
                                    !.pc = IF job.file_size <= CHUNK_SIZE
                                           THEN "whole" ELSE "session"]
    /\ UNCHANGED <<clock, env, sv, last, flow>>

\* Lines 75-81: the whole file in one files_upload; what the call raises
\* is caught at lines 116-124 and upload_to_dropbox returns False.
UploadWhole ==
    /\ job.pc = "whole"
    /\ \E ok \in BOOLEAN :
          job' = UploadReturn(
                    [job EXCEPT
                       !.tell = ReadTo(0, job.file_size, job.file_size),
                       !.calls = Append(@, ApiCall("files_upload", 0,
                                                   job.file_size, None,
                                                   ok))],
                    ok)
    /\ UNCHANGED <<fs, clock, env, sv, last, flow>>

\* Lines 83-94: the session is started with the first chunk and the cursor
\* made with the position of the file as its offset.
UploadSessionStart ==
    /\ job.pc = "session"
    /\ \E ok \in BOOLEAN :
          LET to == ReadTo(0, CHUNK_SIZE, job.file_size)
              called == [job EXCEPT
                           !.tell = to,
                           !.calls = Append(@,
                              ApiCall("files_upload_session_start", 0, to,
                                      None, ok))]
          IN  job' = IF ok
                     THEN [called EXCEPT !.pc = "loop", !.offset = Some(to)]
                     ELSE UploadReturn(called, FALSE)
    /\ UNCHANGED <<fs, clock, env, sv, last, flow>>

\* The cursor that forgets the chunk just appended.
CursorAfterAppend_Kept(offset, tell) == offset

\* Line 106: cursor.offset = f.tell().
CursorAfterAppend(offset, tell) == Some(tell)

\* Lines 97-106, one turn of the loop: the next chunk is read and sent,
\* with session_finish when it is the last, with append_v2 otherwise.
UploadChunk ==
    /\ job.pc = "loop"
    /\ job.tell < job.file_size
    /\ \E ok \in BOOLEAN :
          LET remaining == job.file_size - job.tell
              chunk_size == IF CHUNK_SIZE < remaining THEN CHUNK_SIZE
                            ELSE remaining
              to == ReadTo(job.tell, chunk_size, job.file_size)
              api == IF remaining <= CHUNK_SIZE
                     THEN "files_upload_session_finish"
                     ELSE "files_upload_session_append_v2"
              called == [job EXCEPT
                           !.tell = to,
                           !.calls = Append(@, ApiCall(api, job.tell, to,
                                                       job.offset, ok))]
          IN  job' = IF ~ok THEN UploadReturn(called, FALSE)
                     ELSE IF remaining <= CHUNK_SIZE THEN called
                     ELSE [called EXCEPT
                             !.offset = CursorAfterAppend(job.offset, to)]
    /\ UNCHANGED <<fs, clock, env, sv, last, flow>>

\* Lines 97 and 113-114: the file is read to its end, the loop is left and
\* upload_to_dropbox returns True.
UploadDone ==
    /\ job.pc = "loop"
    /\ ~(job.tell < job.file_size)
    /\ job' = UploadReturn(job, TRUE)
    /\ UNCHANGED <<fs, clock, env, sv, last, flow>>

\* Time passes while the pipeline runs.
JobTick ==
    /\ job.pc \notin {"idle", "exited"}
    /\ Tick

NextPipeline ==
    \/ MainBegin
    \/ MainFetch
    \/ MainBuild
    \/ MainUpload
    \/ MainUploaded
    \/ UploadBegin
    \/ UploadWhole
    \/ UploadSessionStart
    \/ UploadChunk
    \/ UploadDone
    \/ JobTick

(***************************************************************************)
(* The specification of the credential lifecycle: calls of the handler     *)
(* and of the storage, each run to its end, as time passes.                *)
(***************************************************************************)
Init ==
    /\ fs = [p \in Paths |-> NoFile]
    /\ clock = 0
    /\ env \in BOOLEAN
    /\ sv = [p \in SaverIds |-> IdleSaver]
    /\ last = Call("init", NoArg, "return", "", None, 0, 0, fs, 0)
    /\ flow = FlowIdle
    /\ job = JobIdle

Next ==
    \/ Tick
    \/ FinishAuthorization
    \/ GetValidTokens
    \/ RefreshTokens
    \/ SaveTokens
    \/ IsTokenExpired
    \/ ClearTokens
    \/ Logout
    \/ GetAuthenticatedClient
    \/ IsAuthenticated

Spec == Init /\ [][Next]_vars

(***************************************************************************)
(* The storage under several passwords, and what can happen to the token   *)
(* file between a save and a load.                                         *)
(***************************************************************************)
\* The dictionaries given to save_tokens.
CodecRecords ==
    {[access_token |-> "a0"],
     [access_token |-> "a1", refresh_token |-> NoneVal, expires_at |-> 301,
      _saved_at |-> -1]}

\* What a load remembers of the call before it.
Brief(l) ==
    IF l.op = "save_tokens"
    THEN [op |-> l.op, arg |-> l.arg, ret |-> l.ret, at |-> l.at]
    ELSE IF l.op = "generate_key_from_password"
    THEN [op |-> l.op, password |-> l.arg.password, salt |-> l.arg.salt,
          ret |-> l.ret, at |-> l.at]
    ELSE [op |-> l.op]

CodecSave ==
    /\ AllIdle
    /\ \E password \in Passwords, tokens \in CodecRecords,
          fault \in CallFaults :
          LET s == save_tokens(fs, Username, password, tokens, clock, fault)
          IN  Done("save_tokens", [password |-> password, tokens |-> tokens],
                   Returned(s.ok, s.fs, 0, 1))

CodecLoad ==
    /\ AllIdle
    /\ \E password \in Passwords :
          Done("load_tokens", [password |-> password, after |-> Brief(last)],
               Returned(load_tokens(fs, Username, password), fs, 0, 0))

\* The salts a caller of generate_key_from_password gives: none, or one of
\* its own.
Salts == {NoneVal, "salt-1"}

GenerateKey ==
    /\ AllIdle
    /\ \E password \in Passwords, salt \in Salts :
          Done("generate_key_from_password",
               [password |-> password, salt |-> salt, after |-> Brief(last)],
               Returned(generate_key_from_password(password, salt), fs, 0, 0))

\* The token file loses its tail.
Truncate ==
    /\ Exists(fs, get_token_path(Username))
    /\ fs[get_token_path(Username)].written = BlobChunks
    /\ \E n \in 0..(BlobChunks - 1) :
          fs' = [fs EXCEPT ![get_token_path(Username)].written = n]
    /\ last' = Call("truncate", NoArg, "return", "", None, 0, 0, fs, clock)
    /\ UNCHANGED <<job, clock, env, sv, flow>>

\* One bit of the token file is flipped.
Tamper ==
    /\ Exists(fs, get_token_path(Username))
    /\ CanDecrypt(fs[get_token_path(Username)].blob.key,
                  fs[get_token_path(Username)])
    /\ IsJson(fs[get_token_path(Username)].blob.data)
    /\ \E where \in {"ciphertext", "hmac"} :
          fs' = [fs EXCEPT ![get_token_path(Username)].blob =
                              FlipBit(@, where)]
    /\ last' = Call("tamper", NoArg, "return", "", None, 0, 0, fs, clock)
    /\ UNCHANGED <<job, clock, env, sv, flow>>

\* Something other than save_tokens that holds the password leaves a token
\* file that is not JSON.
WriteNotJson ==
    /\ \E password \in Passwords :
          fs' = [fs EXCEPT ![get_token_path(Username)] =
                    File(Encrypt(get_fernet(password), NotJson), BlobChunks,
                         "0600")]
    /\ last' = Call("write", NoArg, "return", "", None, 0, 0, fs, clock)
    /\ UNCHANGED <<job, clock, env, sv, flow>>

\* Time passes between two calls of the storage.
CodecTick ==
    /\ clock < MaxClock
    /\ clock' = clock + 1
    /\ UNCHANGED <<job, fs, env, sv, last, flow>>

NextCodec ==
    \/ CodecTick
    \/ CodecSave
    \/ CodecLoad
    \/ GenerateKey
    \/ Truncate
    \/ Tamper
    \/ WriteNotJson

(***************************************************************************)
(* The specification of the store: save_tokens one file operation at a     *)
(* time, with the failures and the crashes that can fall between them.     *)
(***************************************************************************)
InitStore ==
    /\ fs = [p \in Paths |-> NoFile]
    /\ clock = 0
    /\ env = TRUE
    /\ sv = [p \in SaverIds |-> IdleSaver]
    /\ last = Call("init", NoArg, "return", "", None, 0, 0, fs, 0)
    /\ flow = FlowIdle
    /\ job = JobIdle

NextStore ==
    \/ Tick
    \/ SaveBegin(1)
    \/ SaveOpen(1)
    \/ SaveWrite(1)
    \/ SaveExists(1)
    \/ SaveUnlink(1)
    \/ SaveRename(1)
    \/ SaveChmod(1)
    \/ SaveRaise(1)
    \/ SaveCrash(1)

SpecStore == InitStore /\ [][NextStore]_vars

(***************************************************************************)
(* The specification of the codec: saves and loads under several           *)
(* passwords, as time passes and as the token file is damaged.             *)
(***************************************************************************)
SpecCodec == InitStore /\ [][NextCodec]_vars

(***************************************************************************)
(* Two save_tokens calls for one identity at the same time, on a POSIX     *)
(* file system.  A file that is open for writing is written through its    *)
(* handle, wherever a rename has moved it and also after an unlink has     *)
(* removed its name: sv[p].at is the path at which the file of p's handle  *)
(* is found, "detached" once it has no name.  Each handle writes at its    *)
(* own offset, sv[p].pos chunks from the start.                            *)
(***************************************************************************)
\* A stretch of a file no handle has written: zeros.
Hole == EmptyBlob

\* A file whose chunks do not all come from one blob: never a Fernet token.
MixedBlob(parts) == [key |-> <<>>, data |-> <<>>, mac |-> parts]

\* The blob each chunk of a file comes from.
Parts(file) ==
    IF file.written = 0 THEN <<>>
    ELSE IF file.blob.key = <<>> /\ file.blob.data = <<>>
    THEN file.blob.mac
    ELSE [i \in 1..file.written |-> file.blob]

\* The file made of these chunks.
FromParts(parts, mode) ==
    IF parts = <<>> THEN File(EmptyBlob, 0, mode)
    ELSE IF parts[1] # Hole /\ \A i \in DOMAIN parts : parts[i] = parts[1]
    THEN File(parts[1], Len(parts), mode)
    ELSE File(MixedBlob(parts), Len(parts), mode)

\* The k-th chunk of blob written at offset k - 1 of the file, which grows
\* to hold it.
FsWriteAt(f, path, blob, k) ==
    LET old == Parts(f[path])
        len == IF k > Len(old) THEN k ELSE Len(old)
        new == [i \in 1..len |->
                   IF i = k THEN blob
                   ELSE IF i <= Len(old) THEN old[i] ELSE Hole]
    IN  [f EXCEPT ![path] = FromParts(new, f[path].mode)]

\* The handles on the file at `from` follow it to `to`.
Moved(s, from, to) ==
    [q \in SaverIds |->
        IF s[q].pc = "write" /\ s[q].at = from
        THEN [s[q] EXCEPT !.at = to] ELSE s[q]]

\* How a call ends: what it returned.
RaceReturn(s, p, ret) ==
    [s EXCEPT ![p] = [pc |-> "done", blob |-> s[p].blob, ret |-> ret]]

\* Lines 155-163: the except branch.
RaceRaise(p) ==
    LET temp == TempPath(get_token_path(Username))
    IN  IF Exists(fs, temp)
        THEN /\ fs' = FsUnlink(fs, temp)
             /\ sv' = RaceReturn(Moved(sv, temp, "detached"), p, FALSE)
        ELSE /\ fs' = fs
             /\ sv' = RaceReturn(sv, p, FALSE)

\* Lines 124-134.
RaceBegin(p) ==
    /\ sv[p].pc = "idle"
    /\ \E tokens \in StoreInputs :
          sv' = [sv EXCEPT ![p] =
                    [pc |-> "open",
                     blob |-> SaveBlob(tokens, clock, DefaultPassword)]]
    /\ UNCHANGED <<job, fs, clock, env, last, flow>>

\* Line 138: open(temp_path, 'wb') truncates the file that is there, or
\* creates one.
RaceOpen(p) ==
    /\ sv[p].pc = "open"
    /\ LET temp == TempPath(get_token_path(Username))
       IN  /\ fs' = FsOpenW(fs, temp)
           /\ sv' = [sv EXCEPT ![p] =
                        [pc |-> "write", blob |-> sv[p].blob, pos |-> 0,
                         at |-> temp]]
    /\ UNCHANGED <<job, clock, env, last, flow>>

\* Line 139: f.write(encrypted_data), a chunk at a time, then close.
RaceWrite(p) ==
    /\ sv[p].pc = "write"
    /\ fs' = IF sv[p].at = "detached" THEN fs
             ELSE FsWriteAt(fs, sv[p].at, sv[p].blob, sv[p].pos + 1)
    /\ sv' = [sv EXCEPT ![p] =
                 IF sv[p].pos + 1 >= BlobChunks
                 THEN [pc |-> "exists", blob |-> sv[p].blob]
                 ELSE [sv[p] EXCEPT !.pos = @ + 1]]
    /\ UNCHANGED <<job, clock, env, last, flow>>

\* Line 142: os.path.exists(self.token_path).
RaceExists(p) ==
    /\ sv[p].pc = "exists"
    /\ sv' = [sv EXCEPT ![p].pc =
                 IF Exists(fs, get_token_path(Username))
                 THEN "unlink" ELSE "rename"]
    /\ UNCHANGED <<job, fs, clock, env, last, flow>>

\* Line 143: os.unlink(self.token_path) raises FileNotFoundError when the
\* other call has removed or not yet put back the file.
RaceUnlink(p) ==
    /\ sv[p].pc = "unlink"
    /\ LET path == get_token_path(Username)
       IN  IF Exists(fs, path)
           THEN /\ fs' = FsUnlink(fs, path)
                /\ sv' = [Moved(sv, path, "detached") EXCEPT
                             ![p].pc = "rename"]
           ELSE RaceRaise(p)
    /\ UNCHANGED <<job, clock, env, last, flow>>

\* Line 144: os.rename(temp_path, self.token_path) replaces the file that
\* is at the token path and raises FileNotFoundError when the temporary
\* file is gone.
RaceRename(p) ==
    /\ sv[p].pc = "rename"
    /\ LET path == get_token_path(Username)
           temp == TempPath(path)
       IN  IF Exists(fs, temp)
           THEN /\ fs' = FsRename(fs, temp, path)
                /\ sv' = [Moved(Moved(sv, path, "detached"), temp, path)
                             EXCEPT ![p].pc = "chmod"]
           ELSE RaceRaise(p)
    /\ UNCHANGED <<job, clock, env, last, flow>>

\* Lines 147-153: os.chmod, whose failure (the file is gone) is only
\* logged; return True.
RaceChmod(p) ==
    /\ sv[p].pc = "chmod"
    /\ LET path == get_token_path(Username)
       IN  fs' = IF Exists(fs, path) THEN FsChmod(fs, path, "0600") ELSE fs
    /\ sv' = RaceReturn(sv, p, TRUE)
    /\ UNCHANGED <<job, clock, env, last, flow>>

RaceStep(p) ==
    \/ RaceBegin(p)
    \/ RaceOpen(p)
    \/ RaceWrite(p)
    \/ RaceExists(p)
    \/ RaceUnlink(p)
    \/ RaceRename(p)
    \/ RaceChmod(p)

NextRace == \E p \in SaverIds : RaceStep(p)

\* The two calls start over an empty store or over a stored record.
InitRace ==
    /\ fs \in {[p \in Paths |-> NoFile],
                save_tokens([p \in Paths |-> NoFile], Username,
                            DefaultPassword, [access_token |-> "a9"], 0,
                            "none").fs}
    /\ clock = 0
    /\ env = TRUE
    /\ sv = [p \in SaverIds |-> IdleSaver]
    /\ last = Call("init", NoArg, "return", "", None, 0, 0, fs, 0)
    /\ flow = FlowIdle
    /\ job = JobIdle

SpecRace == InitRace /\ [][NextRace]_vars

(***************************************************************************)
(* The specification of the token directory shared by several identities:  *)
(* each call saves or clears the record of one identity; the log keeps     *)
(* whose.                                                                  *)
(***************************************************************************)
IdentitySave ==
    /\ AllIdle
    /\ \E username \in Identities, fault \in CallFaults :
          \E s \in {save_tokens(fs, username, DefaultPassword,
                                [access_token |-> "a0"], clock, fault)} :
              Done("save_tokens", [username |-> username, fault |-> fault],
                   Returned(s.ok, s.fs, 0, 1))

IdentityClear ==
    /\ AllIdle
    /\ \E username \in Identities, fault \in ClearFaults :
          \E c \in {clear_tokens(fs, username, fault)} :
              Done("clear_tokens",
                   [username |-> username,
                    fault |-> IF c.unlinks > 0 THEN fault ELSE "none"],
                   [Returned(c.ok, c.fs, 0, 0) EXCEPT !.clears = 1])

NextIdentity ==
    \/ Tick
    \/ IdentitySave
    \/ IdentityClear

SpecIdentity == InitStore /\ [][NextIdentity]_vars

(***************************************************************************)
(* The specification of the login and of the command line: one run of     *)
(* run_oauth_flow with its listener, directly or from cli.main, or one     *)
(* other command, in a configured environment or not, over an empty store  *)
(* or over the record an earlier authorization left.                       *)
(***************************************************************************)
\* The store an earlier finish_authorization left: a record with a refresh
\* token whose access token is already within the expiry buffer.
EarlierAuthorization ==
    [ok |-> TRUE, access_token |-> "a1", refresh_token |-> "r1",
     expires_in |-> DEFAULT_TOKEN_EXPIRY_BUFFER]

AuthorizedStore ==
    finish_authorization([p \in Paths |-> NoFile], 0, TRUE,
                         EarlierAuthorization, "none").fs

InitFlow ==
    /\ fs \in {[p \in Paths |-> NoFile], AuthorizedStore}
    /\ clock = 0
    /\ env \in BOOLEAN
    /\ sv = [p \in SaverIds |-> IdleSaver]
    /\ last = Call("init", NoArg, "return", "", None, 0, 0, fs, 0)
    /\ flow = FlowIdle
    /\ job = JobIdle

SpecFlow == InitFlow /\ [][NextFlow]_vars

\* The same with the scheduling of the threads: a thread that can take
\* its next step takes it (the serving thread, the shutdown threads, the
\* flow once its join can return).  Nothing makes a request arrive, and
\* nothing makes the timeout of the join come before the events it waits
\* for.
FlowFairness ==
    /\ WF_vars(SrvHandle)
    /\ WF_vars(SrvStop)
    /\ WF_vars(ShutdownCall)
    /\ WF_vars(ShutdownReturn)
    /\ WF_vars(FlowJoined)
    /\ WF_vars(FlowCheck)

SpecFlowLive == InitFlow /\ [][NextFlow]_vars /\ FlowFairness

\* The pipeline starts with the store empty or holding the record of an
\* earlier login.
InitPipeline ==
    /\ fs \in {[p \in Paths |-> NoFile], AuthorizedStore}
    /\ clock = 0
    /\ env \in BOOLEAN
    /\ sv = [p \in SaverIds |-> IdleSaver]
    /\ last = Call("init", NoArg, "return", "", None, 0, 0, fs, 0)
    /\ flow = FlowIdle
    /\ job = JobIdle

SpecPipeline == InitPipeline /\ [][NextPipeline]_vars

\* The script is started like cli.main: with the store empty or holding
\* the record of an earlier login.
SpecScript == InitFlow /\ [][NextScript]_vars

(***************************************************************************)
(* The claims.                                                             *)
(*                                                                         *)
(* `last` describes a call in the states where no save is under way: the   *)
(* call that ended last, with `fs` the store it left.                      *)
(***************************************************************************)
TokenPath == get_token_path(Username)
Stored(f) == load_tokens(f, Username, DefaultPassword)
Ended(op) == AllIdle /\ last.op = op

\* The expiry policy as the specification words it, in whole seconds.
ExpiredAt(tokens, t) ==
    /\ "expires_at" \in DOMAIN tokens
    /\ IntTimestamp(t) >= tokens.expires_at - 300

\* A record that cannot be renewed: no refresh token, or None for one.
LacksRefreshToken(tokens) ==
    \/ "refresh_token" \notin DOMAIN tokens
    \/ tokens.refresh_token = NoneVal

\* C1: a save_tokens call that is interrupted (the process dies) after the
\* temporary file was written and before the rename completed leaves the
\* record stored before at the token path, and load_tokens returns it
\* unchanged.
C1_InterruptedSaveKeepsRecord ==
    (/\ Ended("save_tokens")
     /\ last.outcome = "crash"
     /\ last.at \in {"exists", "unlink", "rename"})
        => /\ fs[TokenPath] = last.pre[TokenPath]
           /\ Stored(fs) = Stored(last.pre)

\* C2: in every state, every step of save_tokens included, the token path
\* does not exist or holds one complete encrypted record, the one stored
\* before the save or the one being saved; load_tokens never sees a
\* partially written record.
C2_TokenPathAbsentOrComplete ==
    LET file == fs[TokenPath]
    IN  \/ ~file.exists
        \/ /\ file.written = BlobChunks
           /\ Stored(fs) # None
           /\ \A p \in SaverIds :
                 sv[p].pc # "idle" =>
                    \/ file.blob = sv[p].blob
                    \/ /\ sv[p].pre[TokenPath].exists
                       /\ file.blob = sv[p].pre[TokenPath].blob

\* C2's case: a save has written part of its blob while a record is stored.
C2_Witness ==
    /\ sv[1].pc = "write"
    /\ fs[TempPath(TokenPath)].exists
    /\ fs[TempPath(TokenPath)].written \in 1..(BlobChunks - 1)
    /\ fs[TokenPath].exists

\* C3: when get_valid_tokens finds an expired record with a refresh token
\* and the refresh succeeds with a lifetime expires_in, the record then
\* stored has an expires_at equal to its save time plus expires_in, within
\* a second.
C3_RefreshRecomputesExpiry ==
    (/\ Ended("get_valid_tokens")
     /\ last.outcome = "return"
     /\ last.saves = 1)
        => /\ Stored(fs) # None
           /\ "expires_at" \in DOMAIN Stored(fs)[1]
           /\ Stored(fs)[1].expires_at
                 - (IntTimestamp(Stored(fs)[1]._saved_at)
                      + last.arg.resp.expires_in) \in {-1, 0, 1}

\* C4: for every stored record that is expired and has no refresh token,
\* the one finish_authorization writes when the provider returns none
\* included, get_valid_tokens returns None, makes no remote call and does
\* not raise (stated for a configured environment).
C4_ExpiredUnrenewableIsAbsent ==
    (/\ Ended("get_valid_tokens")
     /\ env
     /\ Stored(last.pre) # None
     /\ ExpiredAt(Stored(last.pre)[1], last.at)
     /\ LacksRefreshToken(Stored(last.pre)[1]))
        => /\ last.outcome = "return"
           /\ last.ret = None
           /\ last.net = 0

\* C5: when no refresh is needed get_valid_tokens makes no remote call and
\* does not write the store; with no stored record it returns None, and
\* with a stored record that is not expired it returns that record
\* unchanged (the expiry check reads the configuration: with the
\* application key or secret unset it cannot answer for a record that has
\* an expires_at).
C5_NoRefreshNoEffect ==
    Ended("get_valid_tokens") =>
        LET pre == Stored(last.pre)
        IN  /\ pre = None =>
                 /\ last.outcome = "return" /\ last.ret = None
                 /\ last.net = 0 /\ last.saves = 0 /\ fs = last.pre
            /\ (pre # None /\ ~ExpiredAt(pre[1], last.at)) =>
                 /\ last.net = 0 /\ last.saves = 0 /\ fs = last.pre
                 /\ (env \/ "expires_at" \notin DOMAIN pre[1]) =>
                       (last.outcome = "return" /\ last.ret = pre)

\* C5's case: a stored record with an expiry still ahead was asked for.
C5_Witness ==
    /\ Ended("get_valid_tokens")
    /\ Stored(last.pre) # None
    /\ "expires_at" \in DOMAIN Stored(last.pre)[1]
    /\ ~ExpiredAt(Stored(last.pre)[1], last.at)
    /\ last.ret = Stored(last.pre)

\* C6: if the stored record is expired with a refresh token and the remote
\* refresh call fails, get_valid_tokens raises TokenRefreshError (it returns
\* neither the stale record nor None) and the stored record is unchanged.
C6_FailedRefreshRaises ==
    (/\ Ended("get_valid_tokens")
     /\ Stored(last.pre) # None
     /\ ExpiredAt(Stored(last.pre)[1], last.at)
     /\ ~LacksRefreshToken(Stored(last.pre)[1])
     /\ last.net > 0
     /\ ~last.arg.resp.ok)
        => /\ last.outcome = "raise"
           /\ last.exc = "TokenRefreshError"
           /\ fs = last.pre
           /\ Stored(fs) = Stored(last.pre)

\* C6's case: the refresh of an expired record was refused by the provider.
C6_Witness ==
    /\ Ended("get_valid_tokens")
    /\ Stored(last.pre) # None
    /\ ExpiredAt(Stored(last.pre)[1], last.at)
    /\ ~LacksRefreshToken(Stored(last.pre)[1])
    /\ last.net > 0
    /\ ~last.arg.resp.ok
    /\ last.outcome = "raise"

\* C7: if the remote refresh succeeds but save_tokens fails to persist the
\* refreshed record, refresh_tokens fails with TokenStorageError.
C7_UnsavedRefreshIsStorageError ==
    (/\ Ended("refresh_tokens")
     /\ last.net > 0
     /\ last.arg.resp.ok
     /\ last.saves = 1
     /\ last.arg.fault # "none")
        => /\ last.outcome = "raise"
           /\ last.exc = "TokenStorageError"

\* C8: on a successful refresh, refresh_tokens returns a record whose
\* refresh token is the one passed in and whose access token is the one the
\* provider issued, has called save_tokens exactly once, and load_tokens
\* then returns a record with that access token and refresh token.
C8_RefreshReturnsAndStores ==
    (Ended("refresh_tokens") /\ last.outcome = "return") =>
        /\ last.ret.refresh_token = last.arg.refresh_token
        /\ last.ret.access_token = last.arg.resp.access_token
        /\ last.saves = 1
        /\ Stored(fs) # None
        /\ Stored(fs)[1].access_token = last.ret.access_token
        /\ Stored(fs)[1].refresh_token = last.ret.refresh_token

\* C8's case: a refresh succeeded over a record with another access token.
C8_Witness ==
    /\ Ended("refresh_tokens")
    /\ last.outcome = "return"
    /\ Stored(last.pre) # None
    /\ Stored(last.pre)[1].access_token # last.ret.access_token
    /\ Stored(fs) # None

\* C9: _is_token_expired returns True exactly when the record has an
\* expires_at and now >= expires_at - 300 in whole seconds: never for a
\* record without expires_at, True for expires_at = now + 299 and now + 300,
\* False for now + 301 (with the configuration the check reads in place).
C9_ExpiryBoundary ==
    Ended("_is_token_expired") =>
        LET now == IntTimestamp(last.at)
            has == "expires_at" \in DOMAIN last.arg
        IN  /\ ~has => (last.outcome = "return" /\ last.ret = FALSE)
            /\ (has /\ env) =>
                 /\ last.outcome = "return"
                 /\ last.ret = (now >= last.arg.expires_at - 300)
                 /\ last.arg.expires_at = now + 299 => last.ret = TRUE
                 /\ last.arg.expires_at = now + 300 => last.ret = TRUE
                 /\ last.arg.expires_at = now + 301 => last.ret = FALSE

\* C9's case: the check was asked about a record expiring in exactly 300
\* seconds, at a clock reading between two whole seconds.
C9_Witness ==
    /\ Ended("_is_token_expired")
    /\ env
    /\ "expires_at" \in DOMAIN last.arg
    /\ last.arg.expires_at = IntTimestamp(last.at) + 300
    /\ last.at % TicksPerSecond # 0
    /\ last.ret = TRUE

\* C10: when the exchange, the save and the verification all succeed,
\* finish_authorization returns the token record (the provider's access
\* token and refresh token, and an expires_at when the provider gave
\* expires_in), has called save_tokens exactly once, and load_tokens then
\* returns a record with the same access token, refresh token and
\* expires_at.
C10_FinishReturnsRecord ==
    (Ended("finish_authorization") /\ last.outcome = "return") =>
        /\ last.saves = 1
        /\ Stored(fs) # None
        /\ last.ret # None
        /\ last.ret[1].access_token = last.arg.resp.access_token
        /\ last.ret[1].refresh_token = last.arg.resp.refresh_token
        /\ Truthy(last.arg.resp.expires_in) =>
              "expires_at" \in DOMAIN last.ret[1]
        /\ Stored(fs)[1].access_token = last.ret[1].access_token
        /\ Stored(fs)[1].refresh_token = last.ret[1].refresh_token

(***************************************************************************)
(* C11. When save_tokens reports failure during finish_authorization, or   *)
(* the verification load after a successful save finds nothing,            *)
(* finish_authorization fails with TokenStorageError.                      *)
(***************************************************************************)
C11_UnsavedAuthorizationIsStorageError ==
    (Ended("finish_authorization") /\ last.saves = 1
        /\ (last.arg.fault # "none" \/ Stored(fs) = None))
    => (last.outcome = "raise" /\ last.exc = "TokenStorageError")

(***************************************************************************)
(* C12. After logout on an identity that has a stored record, logout has   *)
(* returned True, has called the storage's clear_tokens exactly once, and  *)
(* load_tokens returns None.                                               *)
(***************************************************************************)
C12_LogoutClearsRecord ==
    (Ended("logout") /\ Stored(last.pre) # None)
    => (last.ret = TRUE /\ last.clears = 1 /\ Stored(fs) = None)

(***************************************************************************)
(* C13. clear_tokens on an identity that has a stored record, when the     *)
(* operating system refuses nothing, returns True and leaves no file at    *)
(* the token path.                                                         *)
(***************************************************************************)
C13_ClearRemovesRecord ==
    (Ended("clear_tokens") /\ Stored(last.pre) # None
        /\ last.arg.fault = "none")
    => (last.ret = TRUE /\ ~Exists(fs, TokenPath))

(***************************************************************************)
(* C14. clear_tokens on an identity with no stored record, right after a   *)
(* previous clear included, returns True, creates no file and leaves the   *)
(* store as it was.                                                        *)
(***************************************************************************)
C14_ClearIsIdempotent ==
    (Ended("clear_tokens") /\ ~Exists(last.pre, TokenPath))
    => (last.ret = TRUE /\ fs = last.pre)

C14_Witness ==
    /\ Ended("clear_tokens")
    /\ last.arg.after = "clear_tokens"
    /\ ~Exists(last.pre, TokenPath)
    /\ last.ret = TRUE

(***************************************************************************)
(* C15. load_tokens never raises and never returns damaged data: it        *)
(* returns None when the file is missing, empty, truncated, written under  *)
(* another password, tampered with, or not JSON once decrypted; when it    *)
(* returns a record, the file is the whole blob that save_tokens makes of  *)
(* that record under the same password.                                    *)
(***************************************************************************)
Unusable(file, password) ==
    \/ ~file.exists
    \/ file.written < BlobChunks
    \/ file.blob.key # get_fernet(password)
    \/ file.blob.mac # Mac(file.blob.key, file.blob.data)
    \/ ~IsJson(file.blob.data)

C15_LoadReturnsNoneOrSaved ==
    Ended("load_tokens")
    => /\ last.outcome = "return"
       /\ Unusable(last.pre[TokenPath], last.arg.password)
             => last.ret = None
       /\ last.ret # None
             => /\ "_saved_at" \in DOMAIN last.ret[1]
                /\ last.pre[TokenPath] =
                      File(SaveBlob(last.ret[1], last.ret[1]["_saved_at"],
                                    last.arg.password),
                           BlobChunks, last.pre[TokenPath].mode)

C15_Witness ==
    /\ Ended("load_tokens")
    /\ last.pre[TokenPath].exists
    /\ last.pre[TokenPath].written = BlobChunks
    /\ last.pre[TokenPath].blob.key = get_fernet(last.arg.password)
    /\ last.pre[TokenPath].blob.mac
          # Mac(last.pre[TokenPath].blob.key, last.pre[TokenPath].blob.data)
    /\ last.ret = None

(***************************************************************************)
(* C16. After save_tokens(R) returned True under a password, the next      *)
(* load_tokens under the same password, however long after, returns R      *)
(* with the stamp the save put on it.                                      *)
(***************************************************************************)
LoadAfterSave ==
    /\ Ended("load_tokens")
    /\ last.arg.after.op = "save_tokens"
    /\ last.arg.after.ret = TRUE
    /\ last.arg.after.arg.password = last.arg.password

C16_SaveLoadRoundTrip ==
    LoadAfterSave
    => last.ret = Some(Stamp(last.arg.after.arg.tokens, last.arg.after.at))

C16_Witness ==
    /\ LoadAfterSave
    /\ last.arg.password # DefaultPassword
    /\ last.at > last.arg.after.at
    /\ last.ret # None
    /\ "_saved_at" \in DOMAIN last.arg.after.arg.tokens

(***************************************************************************)
(* C17. When the listener has received a redirect that carries a code      *)
(* before the wait timed out, run_oauth_flow has called                    *)
(* finish_authorization exactly once, with exactly that code.              *)
(***************************************************************************)
CodeReceived(code) ==
    \E i \in DOMAIN flow.handled : flow.handled[i].handler.auth_code = code

C17_ReceivedCodeIsFinished ==
    \A code \in {"c1", "c3"} :
        (flow.pc = "done" /\ ~flow.timedOut /\ CodeReceived(code)
            /\ Len(flow.handled) = 1)
        => flow.finished = <<code>>

(***************************************************************************)
(* C18. A request that carries neither a code nor an error is answered     *)
(* with 400 and does not shut the listener down: while only such requests  *)
(* have been handled no shutdown is asked for and the server keeps         *)
(* serving.                                                                *)
(***************************************************************************)
OnlyStrayHandled ==
    /\ flow.handled # <<>>
    /\ \A i \in DOMAIN flow.handled :
          /\ flow.handled[i].req.code = <<>>
          /\ flow.handled[i].req.error = <<>>

C18_StrayRequestKeepsListening ==
    OnlyStrayHandled
    => /\ \A i \in DOMAIN flow.handled : flow.handled[i].handler.status = 400
       /\ flow.starting = 0 /\ flow.waiting = 0
       /\ ~flow.shutdown_request
       /\ flow.srv # "stopped"

(***************************************************************************)
(* C19. In run_oauth_flow the listener is bound before the authorization   *)
(* URL is opened in the browser: every open event has a bind event before  *)
(* it.                                                                     *)
(***************************************************************************)
C19_BindBeforeOpen ==
    \A i \in DOMAIN flow.events :
        flow.events[i] = "open"
        => \E j \in 1..(i - 1) : flow.events[j] = "bind"

(***************************************************************************)
(* C20. do_GET, for a request with a code, stores the first code value,    *)
(* answers 200 with the confirmation page and asks for the shutdown on a   *)
(* thread of its own; for a request with an error and no code it stores    *)
(* the first error value, answers 400 with the error text and asks for    *)
(* the shutdown the same way.                                              *)
(***************************************************************************)
C20_CallbackAnswers ==
    \A i \in DOMAIN flow.handled :
        LET req == flow.handled[i].req
            h == flow.handled[i].handler
        IN  /\ req.code # <<>>
                => /\ h.auth_code = req.code[1]
                   /\ h.status = 200
                   /\ h.body = <<"Authentication successful!">>
                   /\ h.shutdown = "thread"
            /\ (req.code = <<>> /\ req.error # <<>>)
                => /\ h.error = req.error[1]
                   /\ h.status = 400
                   /\ h.body = <<"Error: ", req.error[1]>>
                   /\ h.shutdown = "thread"

C20_Witness ==
    /\ Len(flow.handled) = 2
    /\ Len(flow.handled[1].req.code) = 2
    /\ flow.handled[2].req.code = <<>>
    /\ Len(flow.handled[2].req.error) = 2
    /\ flow.starting + flow.waiting > 0

(***************************************************************************)
(* C21. The listener processes exactly one redirect: once a request that   *)
(* carries a code or an error has been handled, no further request is      *)
(* handled, even one already pending while the shutdown thread has not     *)
(* run yet.                                                                *)
(***************************************************************************)
IsRedirect(req) == req.code # <<>> \/ req.error # <<>>

C21_OneRedirectHandled ==
    \A i \in DOMAIN flow.handled :
        IsRedirect(flow.handled[i].req) => i = Len(flow.handled)

(***************************************************************************)
(* C22. When no redirect has arrived by the time the wait times out,       *)
(* run_oauth_flow returns False, having raised nothing, never called       *)
(* finish_authorization, and left the token store as it was.               *)
(***************************************************************************)
NoRedirectArrived ==
    /\ \A i \in DOMAIN flow.handled : ~IsRedirect(flow.handled[i].req)
    /\ \A i \in DOMAIN flow.queue : ~IsRedirect(flow.queue[i])

C22_TimeoutIsFailure ==
    (flow.pc = "done" /\ flow.timedOut /\ NoRedirectArrived)
    => /\ flow.result = FALSE
       /\ flow.finished = <<>>
       /\ fs = last.pre

C22_Witness ==
    /\ flow.pc = "done"
    /\ flow.timedOut
    /\ flow.handled = <<>> /\ flow.queue = <<>>
    /\ flow.result = FALSE

(***************************************************************************)
(* C27. The plaintext access token is in no log message and in no file:    *)
(* what a call logged holds no access token, and every file under the      *)
(* token directory is the token file or its temporary sibling and holds    *)
(* nothing but (a part of) a blob encrypted under the storage's key.       *)
(***************************************************************************)
AccessTokens == ExchangedTokens \cup RefreshedAccess \cup {"a0"}

YieldedTokens ==
    get_valid_tokens(last.pre, last.at, env, last.arg.resp, last.arg.fault)

YieldsRecord == YieldedTokens.outcome = "return" /\ YieldedTokens.ret # None

C24_ClientOrAuthenticationError ==
    (Ended("get_authenticated_client") /\ env)
    => \/ /\ last.outcome = "return"
          /\ Stored(fs) # None
          /\ last.ret = Client(Stored(fs)[1].access_token)
       \/ /\ last.outcome = "raise"
          /\ last.exc = "AuthenticationError"

(***************************************************************************)
(* C25. Every exception that leaves a public operation of the handler is   *)
(* one of the typed errors.                                                *)
(***************************************************************************)
PublicOperations ==
    {"finish_authorization", "get_valid_tokens", "refresh_tokens",
     "get_authenticated_client", "is_authenticated", "logout"}

TypedErrors ==
    {"AuthenticationError", "AuthorizationError", "TokenRefreshError",
     "TokenStorageError", "ConfigurationError"}

C25_OnlyTypedErrorsEscape ==
    (AllIdle /\ last.op \in PublicOperations /\ last.outcome = "raise")
    => last.exc \in TypedErrors

(***************************************************************************)
(* C26. A failure to persist a credential is never swallowed: when the     *)
(* save_tokens call of finish_authorization, refresh_tokens or             *)
(* is_authenticated fails, the operation does not report success.          *)
(***************************************************************************)
SaveFailed ==
    \/ /\ last.op \in {"finish_authorization", "refresh_tokens"}
       /\ last.saves = 1 /\ last.arg.fault # "none"
    \/ /\ last.op = "is_authenticated"
       /\ (last.arg.fault # "none" \/ last.arg.fault2 # "none")

C26_FailedSaveIsReported ==
    (AllIdle /\ SaveFailed)
    => (last.outcome = "raise" \/ last.ret = FALSE)

(***************************************************************************)
(* C30. As stated: two calls of generate_key_from_password with the same   *)
(* password that both omit the salt return different salts and different   *)
(* keys.                                                                   *)
(***************************************************************************)
TwoSaltlessDerivations ==
    /\ Ended("generate_key_from_password")
    /\ last.arg.salt = NoneVal
    /\ last.arg.after.op = "generate_key_from_password"
    /\ last.arg.after.salt = NoneVal
    /\ last.arg.after.password = last.arg.password

CommandOperation(command) ==
    CASE command = "login" -> "run_oauth_flow"
      [] command = "check" -> "check_auth"
      [] command = "logout" -> "logout_user"

\* C29: when main has ended on the command login (with a browser), check
\* or logout, it has called the operation of that command exactly once,
\* with the given username, and, if the operation reported success, it has
\* ended through sys.exit with status 0.
C29_MainCallsOperationAndExits ==
    (flow.exit # <<>> /\ flow.cmd \in {"login", "check", "logout"}
        /\ ~flow.no_browser)
    => /\ flow.calls = <<CalledWith(CommandOperation(flow.cmd))>>
       /\ flow.success = "True" => flow.exit = Exit("sys.exit", 0)

\* C31: a save_tokens call, failed or not, and a clear_tokens call made for
\* one identity leave the record file of every other identity as it was,
\* the identity named as the first one followed by ".tmp" included.
C31_IdentityIsolation ==
    (Ended("save_tokens") \/ Ended("clear_tokens"))
    => \A other \in Identities \ {last.arg.username} :
          fs[get_token_path(other)] = last.pre[get_token_path(other)]

\* The lifetimes the provider grants to an access token, in seconds.
GrantedLifetimes == ExpiresIn \ {0}

\* get_valid_tokens returned the record of a refresh as it was stored,
\* without another refresh.
ReturnedRefreshedRecord ==
    /\ Ended("get_valid_tokens")
    /\ last.outcome = "return"
    /\ last.ret # None
    /\ last.net = 0
    /\ "refreshed_at" \in DOMAIN last.ret[1]

\* C32: a refreshed record that get_valid_tokens returns is still within
\* the lifetime the provider granted for its access token minus the
\* 300-second buffer, whichever of the lifetimes it granted: time having
\* advanced to that point, the record is refreshed again instead.
C32_RefreshedTokenWithinLifetime ==
    ReturnedRefreshedRecord
    => \E lifetime \in GrantedLifetimes :
          last.at < (last.ret[1].refreshed_at + lifetime
                       - DEFAULT_TOKEN_EXPIRY_BUFFER) * TicksPerSecond

\* The fields of a record that a refresh is to leave as they are.
KeptFields == {"account_id", "uid", "created_at", "refresh_token"}

\* C33: a refresh of the stored record (get_valid_tokens refreshing it
\* with its own refresh token) that stored its result leaves the account
\* id, the uid, the creation time and the refresh token of the record
\* stored before it in the record stored after it, with the same values.
C33_RefreshKeepsIdentityFields ==
    (/\ Ended("get_valid_tokens")
     /\ last.outcome = "return"
     /\ last.net = 1
     /\ last.saves = 1
     /\ Stored(last.pre) # None)
    => /\ Stored(fs) # None
       /\ \A k \in KeptFields \cap DOMAIN Stored(last.pre)[1] :
             /\ k \in DOMAIN Stored(fs)[1]
             /\ Stored(fs)[1][k] = Stored(last.pre)[1][k]

\* C34: when save_tokens has returned False, whichever step failed, the
\* record stored before the call is still stored and loadable and no
\* temporary sibling file is left.
C34_FailedSaveKeepsRecord ==
    (Ended("save_tokens") /\ last.outcome = "return" /\ last.ret = FALSE)
    => /\ fs[TokenPath] = last.pre[TokenPath]
       /\ Stored(fs) = Stored(last.pre)
       /\ ~Exists(fs, TempPath(TokenPath))

\* Both concurrent save_tokens calls have returned.
BothReturned == \A p \in SaverIds : sv[p].pc = "done"

\* C35: after two concurrent save_tokens calls for one identity have both
\* returned, the token path holds the complete record one of them wrote,
\* never a mixture or a part, and it is not absent when one of the calls
\* returned True.
C35_ConcurrentSavesLeaveOneRecord ==
    BothReturned
    => /\ Exists(fs, TokenPath)
          => \E p \in SaverIds :
                fs[TokenPath].blob = sv[p].blob
                /\ fs[TokenPath].written = BlobChunks
       /\ (\E p \in SaverIds : sv[p].ret) => Exists(fs, TokenPath)

\* C36: run_oauth_flow has no outcome before it ends and ends with one
\* boolean, never with an exception; it ends with True only after
\* finish_authorization was called and returned, a loadable record being
\* stored then; otherwise (error redirect, timeout, port taken, missing
\* configuration, failed exchange or save) it ends with False.
C36_FlowEndsInOneOutcome ==
    /\ flow.pc \in {"idle", "browser", "bind", "serve", "join", "check"}
          => flow.result = NoneVal
    /\ flow.pc = "done"
          => /\ flow.result \in BOOLEAN
             /\ flow.result => /\ Len(flow.finished) = 1
                                /\ Stored(fs) # None

\* The flow has ended with False after an error redirect, and after a
\* refused bind.
C36_Witness ==
    /\ flow.pc = "done"
    /\ flow.result = FALSE
    /\ \/ /\ ~flow.timedOut
          /\ \E i \in DOMAIN flow.handled :
                flow.handled[i].handler.error # NoneVal
       \/ ~Happened("bind") /\ Happened("open")

\* The listener has handled a request that carries a code or an error.
RedirectHandled ==
    \E i \in DOMAIN flow.handled : IsRedirect(flow.handled[i].req)

\* The serving thread has stopped, every shutdown call has returned and
\* run_oauth_flow has returned.
ListenerAndFlowEnded ==
    /\ flow.srv = "stopped"
    /\ flow.starting = 0 /\ flow.waiting = 0
    /\ flow.pc = "done"

\* C37: once the listener has handled a request with a code or an error,
\* the serving thread eventually stops, the shutdown calls issued from
\* their own threads return, and run_oauth_flow's wait ends and it
\* returns; the join returning because the thread ended, no timeout is
\* needed for it.
C37_RedirectEndsListenerAndFlow == RedirectHandled ~> ListenerAndFlowEnded

\* A redirect was handled and the flow returned without its join timing
\* out.
C37_Witness ==
    /\ RedirectHandled
    /\ ListenerAndFlowEnded
    /\ ~flow.timedOut

\* ---- C38 ----
\* The calls of an upload session.
SessionCalls ==
    {"files_upload_session_start", "files_upload_session_append_v2",
     "files_upload_session_finish"}

\* The bytes the calls before call i were given.
SentBefore(i) == IF i = 1 THEN 0 ELSE job.calls[i - 1].to

\* Every call was given the bytes that follow those already sent, and a
\* call that raised is the last.
SentOnceInOrder ==
    \A i \in DOMAIN job.calls :
        /\ job.calls[i].from = SentBefore(i)
        /\ job.calls[i].from <= job.calls[i].to
        /\ job.calls[i].to <= job.file_size
        /\ i < Len(job.calls) => job.calls[i].ok

\* A file of at most CHUNK_SIZE bytes: one files_upload with all of it.
SmallFileInOneCall ==
    job.file_size <= CHUNK_SIZE =>
        /\ Len(job.calls) <= 1
        /\ \A i \in DOMAIN job.calls :
              /\ job.calls[i].api = "files_upload"
              /\ job.calls[i].to = job.file_size

\* A larger file: a session start, then appends, then the finish, which
\* is the last call and is given the end of the file; every append and the
\* finish are given a cursor whose offset is the number of bytes sent.
LargeFileInOneSession ==
    job.file_size > CHUNK_SIZE =>
        \A i \in DOMAIN job.calls :
            /\ job.calls[i].api \in SessionCalls
            /\ job.calls[i].api = "files_upload_session_start" <=> i = 1
            /\ job.calls[i].api = "files_upload_session_finish" =>
                  /\ i = Len(job.calls)
                  /\ job.calls[i].to = job.file_size
            /\ i > 1 => job.calls[i].cursor = Some(SentBefore(i))

\* An upload that reports success sent the file to its end, a large one
\* with the finish as its last call.
SuccessSentAll ==
    job.uploaded = "True" =>
        /\ job.calls # <<>>
        /\ job.calls[Len(job.calls)].ok
        /\ job.calls[Len(job.calls)].to = job.file_size
        /\ job.file_size > CHUNK_SIZE =>
              job.calls[Len(job.calls)].api = "files_upload_session_finish"

\* C38: for every file size upload_to_dropbox sends each byte of the file
\* once and in order: a file of at most CHUNK_SIZE bytes by a single
\* files_upload, a larger file by one session start, zero or more appends
\* and one session finish as the last call, the cursor offset before every
\* append and before the finish being the number of bytes already sent.
C38_UploadSendsEachByteOnce ==
    /\ SentOnceInOrder
    /\ SmallFileInOneCall
    /\ LargeFileInOneSession
    /\ SuccessSentAll

\* An upload of a file of more than two chunks succeeded: a start, at
\* least one append and the finish were made.
C38_Witness ==
    /\ job.uploaded = "True"
    /\ job.file_size > 2 * CHUNK_SIZE
    /\ \E i \in DOMAIN job.calls :
          job.calls[i].api = "files_upload_session_append_v2"

\* ---- C39 ----
StepOrder == <<"fetch", "build", "upload">>

Attempted(step) == \E i \in DOMAIN job.steps : job.steps[i] = step

\* At least one feed returned at least one article.
SomeArticle ==
    /\ job.feeds_data # None
    /\ \E i \in DOMAIN job.feeds_data[1] : job.feeds_data[1][i] >= 1

\* upload_to_dropbox returned True and no call it made raised.
UploadSucceeded ==
    /\ job.uploaded = "True"
    /\ job.calls # <<>>
    /\ \A i \in DOMAIN job.calls : job.calls[i].ok

\* C39: in rss_to_kobo.main the steps run in the order fetch, build,
\* upload; the build is attempted only after some feed returned an
\* article, the upload only after the build produced an existing file and
\* --no-upload was not given; main returns 0 only if every attempted step
\* succeeded; upload_to_dropbox makes no upload call without a client.
C39_StepsInOrderAndStatus ==
    /\ Len(job.steps) <= Len(StepOrder)
    /\ job.steps = SubSeq(StepOrder, 1, Len(job.steps))
    /\ Attempted("build") => SomeArticle
    /\ Attempted("upload") => job.epub = "file" /\ ~job.no_upload
    /\ job.status = <<0>> =>
          /\ Attempted("fetch") /\ SomeArticle
          /\ Attempted("build") /\ job.epub = "file"
          /\ Attempted("upload") => UploadSucceeded
    /\ job.calls # <<>> => Attempted("upload") /\ job.client = "client"

\* A run that went through the three steps and returned 0.
C39_Witness ==
    /\ job.status = <<0>>
    /\ job.steps = StepOrder

\* A run whose upload step found no client and ended with 1.
C39_NoClientRun ==
    /\ job.status = <<1>>
    /\ job.client = "None"
    /\ job.steps = StepOrder

\* ---- C40 ----
ScriptEnded(command) == flow.cmd = command /\ flow.exit # <<>>

\* C40: the main of auth_dropbox.py returns 0 and prints the success
\* message for the login command only if run_oauth_flow returned True, and
\* for the status command returns 0 exactly when check_auth reports the
\* user authenticated.
C40_ScriptStatusFollowsOperation ==
    /\ ScriptEnded("login") =>
          ((flow.exit[1].status = 0 \/ "success" \in flow.exit[1].printed)
              => flow.result = TRUE)
    /\ ScriptEnded("status") =>
          (flow.exit[1].status = 0 <=> flow.success = "True")

====
